---- MODULE Spec2Model ----
(***************************************************************************)
(* zotomatic: the PDF ingestion engine (run_scan's main loop, the pending  *)
(* queue processor, the watcher callbacks, the per-PDF note decision) and  *)
(* the LLM usage ledger, as state machines.                                *)
(*                                                                         *)
(* Time is in whole seconds (the code stores int(time.time())).  The main  *)
(* thread's steps are instantaneous; the clock advances while the main     *)
(* thread sleeps and while no process is running.                          *)
(***************************************************************************)
EXTENDS Integers, Sequences, FiniteSets, TLC

(* ------------------------------ bounds -------------------------------- *)

\* PendingQueueProcessorConfig, scaled down so that two backoffs (1 s, then
\* 2 s, the cap) and the drop at the third failure fit before the clock
\* stops.
base_delay_seconds == 1
max_delay_seconds == 2
max_attempts == 2
batch_limit == 1
loop_interval_seconds == 1

\* The clock stops at MaxTime; a file is rewritten at most MaxMtime times;
\* at most MaxRuns processes are started one after the other.
MaxTime == 3
MaxMtime == 1
MaxRuns == 2

\* get_due is asked for at most MaxGetDueLimit entries.
MaxGetDueLimit == 2

\* --path is given at most MaxPathArgs paths.
MaxPathArgs == 2

\* The largest llm_tag_limit a user sets, and the most items a completion
\* for tags has.
MaxTagLimit == 2

MaxTagItems == 3

\* The longest list of paths a summary is printed for.
MaxListed == 11

\* The number of paths a section of the summary lists: list_all(limit=10),
\* dropped_paths[:10], error_paths[:10].
SummaryListLimit == 10

\* The ledger: daily_limit is at most MaxLimit, one call reserves at most
\* MaxReserve, at most MaxCalls calls are made per day, on days 0..MaxDay.
MaxLimit == 2
MaxReserve == 2
MaxCalls == 3
MaxDay == 1

(* ------------------------------ universe ------------------------------ *)

Paths == {"a.pdf", "b.pdf"}
Citekeys == {"smith2020", "jones2019"}
Sizes == {100}
Days == 0..MaxDay

\* What --path may name: a PDF, present or not, or a directory.
Dirs == {"papers"}
PathArgs == Paths \cup Dirs

NoPath == ""
NoCitekey == ""

Min(a, b) == IF a <= b THEN a ELSE b
Max(a, b) == IF a >= b THEN a ELSE b

RECURSIVE Pow2(_)
Pow2(n) == IF n <= 0 THEN 1 ELSE 2 * Pow2(n - 1)

RECURSIVE SeqToSet(_)
SeqToSet(s) == IF s = <<>> THEN {} ELSE {Head(s)} \cup SeqToSet(Tail(s))

Take(s, n) == SubSeq(s, 1, Min(n, Len(s)))
Drop(s, n) == SubSeq(s, Min(n, Len(s)) + 1, Len(s))

VARIABLES
    \* ---- durable: the disk and the state database
    now,                    \* int(time.time())
    disk,                   \* existing PDF path -> <<mtime_ns, size>>
    files,                  \* files table: file_path -> <<mtime_ns, size>>
    pending,                \* pending table: the set of its rows
    meta_boot_seed_complete,\* meta["boot_seed_complete"] == "1"
    notes,                  \* citekey of an existing note -> its frontmatter
    zotero,                 \* Zotero library: path -> citekey, "" if not catalogued
    \* ---- volatile: one run_scan process
    scan_mode,              \* "once" | "watch" | "path"
    scan_force,
    pc,                     \* position of the main thread
    exit_reason,            \* how the main loop was left
    scan_paths,             \* --path: the paths still to process
    seed_batch,
    due_entries,            \* run_once's snapshot of due entries, still to do
    outcome,                \* result of the attempt on Head(due_entries)
    processed,
    wake_at,
    pending_seed_buffer,
    runtime_seed_complete,
    boot_seed_complete,
    stop_event,
    citekey_index,          \* citekey -> note path ("" if none)
    counters,               \* created/updated/skipped/error counts
    error_paths,
    dropped_count,
    dropped_paths,
    summary,
    \* ---- volatile: the watcher thread
    wpc,
    scan_todo,
    wpath,
    events,
    skipped_by_state,
    released,               \* the filesystem subscription was released
    \* ---- the LLM side
    llm,                    \* [client, summary_enabled, tag_enabled, gated]
    daily_limit,
    llm_usage,              \* date -> calls reserved that day
    today,
    \* ---- history (not program state)
    runs,                   \* processes started so far
    fails,                  \* path -> consecutive failed attempts of its entry
    h,                      \* deliveries and outcomes so far, see HStart
    lh                      \* the ledger's calls so far

durable == <<disk, files, pending, meta_boot_seed_complete, notes, zotero>>
runv == <<scan_mode, scan_force, scan_paths>>
mainv == <<runv, pc, exit_reason, seed_batch, due_entries,
           outcome, processed, wake_at, pending_seed_buffer,
           runtime_seed_complete, boot_seed_complete, stop_event>>
flowv == <<citekey_index, counters, error_paths>>
dropv == <<dropped_count, dropped_paths>>
watchv == <<wpc, scan_todo, wpath, events, skipped_by_state, released>>
llmv == <<llm, daily_limit, llm_usage, today>>
histv == <<runs, fails, h, lh>>

vars == <<now, durable, mainv, flowv, dropv, summary, watchv, llmv, histv>>

(* ---------------------------- pending queue ---------------------------- *)

Without(f, x) == [y \in DOMAIN f \ {x} |-> f[y]]
With(f, x, v) == [y \in DOMAIN f \cup {x} |-> IF y = x THEN v ELSE f[y]]

\* The pending table is the set of its rows; Queued is the set of the paths
\* that have a row, Row the row of a queued path.
Queued(q) == {e.file_path : e \in q}
Row(q, p) == CHOOSE e \in q : e.file_path = p

NewEntry(p, t) ==
    [file_path |-> p, attempt_count |-> 0, next_attempt_at |-> t,
     last_error |-> "", enqueued_at |-> t]

\* An enqueue that inserts a row whether or not the path has one.
EnqueueAgain(q, p, t) == q \cup {NewEntry(p, t)}

\* enqueue(path): a new row is due at once; a path already queued keeps its row.
Enqueue(q, p, t) ==
    IF p \in Queued(q) THEN q ELSE q \cup {NewEntry(p, t)}

\* update_attempt: an UPDATE of the row, nothing when the row is gone.
UpdateAttempt(q, p, attempt_count, next_attempt_at, last_error) ==
    {IF e.file_path = p
     THEN [e EXCEPT !.attempt_count = attempt_count,
                    !.next_attempt_at = next_attempt_at,
                    !.last_error = last_error]
     ELSE e : e \in q}

\* resolve(path): delete the row.
Resolve(q, p) == {e \in q : e.file_path # p}

\* An upsert that keeps an existing row as it is.
UpsertIgnore(rows, p, stat) == IF p \in DOMAIN rows THEN rows ELSE With(rows, p, stat)

\* FileStateRepository.upsert: insert the row, or overwrite mtime_ns and size.
Upsert(rows, p, stat) == With(rows, p, stat)

NoStat == <<>>

\* FileStateRepository.get: the row's (mtime_ns, size), None when absent.
Get(rows, p) == IF p \in DOMAIN rows THEN rows[p] ELSE NoStat

\* A query that returns rows whatever their deadline.
IsDueWhenever(e, t) == TRUE

IsDue(e, t) == e.next_attempt_at <= t

\* An order on next_attempt_at alone.
BeforeByDeadline(a, b) == a.next_attempt_at <= b.next_attempt_at

Before(a, b) ==
    \/ a.next_attempt_at < b.next_attempt_at
    \/ /\ a.next_attempt_at = b.next_attempt_at
       /\ a.enqueued_at <= b.enqueued_at

\* get_due(limit): the sequences the query can return: due rows ordered by
\* next_attempt_at then enqueued_at (rows equal in both come in either
\* order), cut at limit.  Each element is the row as read: its path and
\* attempt_count.
SortedDue(q, t) ==
    LET D == {e \in q : IsDue(e, t)}
    IN {s \in [1..Cardinality(D) -> D] :
          /\ \A i, j \in 1..Cardinality(D) : i # j => s[i] # s[j]
          /\ \A i, j \in 1..Cardinality(D) : i < j => Before(s[i], s[j])}

GetDue(q, t, limit) ==
    {[i \in 1..Min(limit, Len(s)) |->
        [file_path |-> s[i].file_path, attempt_count |-> s[i].attempt_count]] :
     s \in SortedDue(q, t)}

(* ----------------------- pending queue processor ---------------------- *)

\* A ceiling test that lets one more attempt through.
ShouldDropLate(next_attempt) == next_attempt > max_attempts + 1

\* _backoff, the ceiling test.
ShouldDrop(next_attempt) == next_attempt > max_attempts

\* A delay computed from the incremented attempt count.
NextDelayFromNext(attempt_count) ==
    Min(max_delay_seconds, base_delay_seconds * Pow2(Max(attempt_count + 1, 0)))

\* _backoff, the next delay.
NextDelay(attempt_count) ==
    Min(max_delay_seconds, base_delay_seconds * Pow2(Max(attempt_count, 0)))

\* A backoff that removes the row whatever the attempt count.
BackoffResolves(q, file_path, attempt_count, error, next_attempt, t) ==
    Resolve(q, file_path)

\* A backoff without the ceiling: the row is always kept and updated.
BackoffStoresPastCeiling(q, file_path, attempt_count, error, next_attempt, t) ==
    UpdateAttempt(q, file_path, next_attempt, t + NextDelay(attempt_count),
                  error)

\* _backoff: the queue after a failed attempt on the row read as
\* (file_path, attempt_count).
Backoff(q, file_path, attempt_count, error, next_attempt, t) ==
    IF ShouldDrop(next_attempt) THEN Resolve(q, file_path)
    ELSE UpdateAttempt(q, file_path, next_attempt,
                       t + NextDelay(attempt_count), error)

(* --------------------------- Zotero client ---------------------------- *)

\* What one lookup of a PDF in the library can do: return the paper, return
\* nothing (not catalogued, or the attachment listing failed and the error
\* was swallowed), or raise (fetching the parent item failed).
Lookups(p) == IF zotero[p] = NoCitekey THEN {"none", "raise"}
              ELSE {"paper", "none", "raise"}

\* build_context: the citekey of the context, none for the skeleton context.
BuildContext(p, r) == IF r = "paper" THEN zotero[p] ELSE NoCitekey

(* ------------------------ LLM usage ledger: test ---------------------- *)

\* The ledger is enabled by a positive daily limit.
Enabled(limit) == limit > 0

\* A test that ignores the size of the reservation.
CanReserveAnySize(current, n, limit) == current < limit

\* try_reserve's test.
CanReserve(current, n, limit) == current + n <= limit

\* A try_reserve that counts a refused reservation.
ReservedCountsRefusal(current, n, limit) ==
    IF ~Enabled(limit) THEN {[result |-> TRUE, stored |-> current + n]}
    ELSE {[result |-> CanReserve(current, n, limit), stored |-> current + n]}

\* The counter values try_reserve(n) may store, per outcome.  With the
\* ledger disabled every reservation succeeds; whether it is still counted
\* is left open.
Reserved(current, n, limit) ==
    IF ~Enabled(limit) THEN {[result |-> TRUE, stored |-> v] : v \in {current, current + n}}
    ELSE IF CanReserve(current, n, limit)
    THEN {[result |-> TRUE, stored |-> current + n]}
    ELSE {[result |-> FALSE, stored |-> current]}

(* ---------------------------- note workflow --------------------------- *)

LLMResults == {"text", "empty", "raise"}

NotePath(c) == c

\* build_citekey_index: citekey -> path of the notes on disk.
BuildCitekeyIndex(ns) ==
    [c \in Citekeys |-> IF c \in DOMAIN ns THEN NotePath(c) ELSE NoPath]

\* find_by_citekey: the repository's index is the dict build_citekey_index
\* returned, the one _process_pdf also updates.
FindByCitekey(index, c) == index[c]

\* A summary step that takes a failed call for a generated summary.
MaybeGenerateSummaryDoneOnError(status, r) ==
    IF llm.summary_enabled /\ llm.client
    THEN IF r \in {"text", "raise"} THEN "done" ELSE status
    ELSE IF ~llm.summary_enabled THEN "pending" ELSE status

\* _maybe_generate_summary: the summary status of the returned context.
MaybeGenerateSummary(status, r) ==
    IF llm.summary_enabled /\ llm.client
    THEN IF r = "text" THEN "done" ELSE status
    ELSE IF ~llm.summary_enabled THEN "pending" ELSE status

\* A tag step that never records the generated tags.
MaybeGenerateTagsLost(status, r) == status

\* _maybe_generate_tags: the tag status of the returned context.
MaybeGenerateTags(status, r) ==
    IF llm.tag_enabled /\ llm.client
    THEN IF r = "text" THEN "done" ELSE status
    ELSE IF ~llm.tag_enabled THEN "pending" ELSE status

\* A workflow that never sees the PDF path as changed.
PdfPathNeverChanged(ns, c, p) == FALSE

\* update_pdf_path_if_changed: rewrite pdf_local when it differs.
PdfPathChanged(ns, c, p) == ns[c].pdf_local # p

\* update_pending_note: does it regenerate (and so rewrite and return True)?
SummaryShouldRegen(ns, c) ==
    llm.summary_enabled /\ ns[c].summary_status = "pending"

TagShouldRegen(ns, c) ==
    llm.tag_enabled /\ ns[c].tag_status = "pending"

\* A resume that regenerates the summary and the tags whatever their status.
UpdatePendingNoteBoth(ns, c, rs, rt) ==
    [ns EXCEPT
       ![c].summary_status = MaybeGenerateSummary("pending", rs),
       ![c].tag_status = MaybeGenerateTags("pending", rt)]

\* update_pending_note: a field that is not regenerated keeps the status
\* read from the note.
UpdatePendingNote(ns, c, rs, rt) ==
    [ns EXCEPT
       ![c].summary_status =
           IF SummaryShouldRegen(ns, c) THEN MaybeGenerateSummary("pending", rs)
           ELSE ns[c].summary_status,
       ![c].tag_status =
           IF TagShouldRegen(ns, c) THEN MaybeGenerateTags("pending", rt)
           ELSE ns[c].tag_status]

\* create_new_note: _apply_ai, then the builder writes the note.
CreateNewNote(p, rs, rt) ==
    [pdf_local |-> p,
     summary_status |-> MaybeGenerateSummary("pending", rs),
     tag_status |-> MaybeGenerateTags("pending", rt)]

\* An index left as it was after a creation.
IndexNotUpdated(index, c) == index

\* The index after a note was created for citekey c.
IndexAfterCreate(index, c) == [index EXCEPT ![c] = NotePath(c)]

\* _process_pdf on path p, where r is what the Zotero lookup does, rs and rt
\* what the LLM does for the summary and the tags, and w whether writing
\* the note succeeds.  result "raised" is an exception leaving _process_pdf.
ProcessPdf(ns, index, p, r, rs, rt, w) ==
    LET c == BuildContext(p, r)
        existing == IF c = NoCitekey THEN NoPath
                    ELSE IF index[c] # NoPath THEN index[c]
                    ELSE FindByCitekey(index, c)
        same == [result |-> "raised", notes |-> ns, index |-> index]
    IN  IF r = "raise" THEN same
        ELSE IF existing # NoPath /\ c \in DOMAIN ns
        THEN IF PdfPathChanged(ns, c, p)
             THEN IF w THEN [result |-> "updated",
                             notes |-> [ns EXCEPT ![c].pdf_local = p],
                             index |-> index]
                  ELSE same
             ELSE IF SummaryShouldRegen(ns, c) \/ TagShouldRegen(ns, c)
             THEN IF w THEN [result |-> "updated",
                             notes |-> UpdatePendingNote(ns, c, rs, rt),
                             index |-> index]
                  ELSE same
             ELSE [result |-> "skipped", notes |-> ns, index |-> index]
        ELSE IF ~w THEN same
        ELSE IF c = NoCitekey
        THEN [result |-> "created", notes |-> ns, index |-> index]
        ELSE [result |-> "created",
              notes |-> With(ns, c, CreateNewNote(p, rs, rt)),
              index |-> IndexAfterCreate(index, c)]

NoCalls == [summary |-> FALSE, tags |-> FALSE]

\* A workflow that attempts its LLM calls whether or not it has a client.
LLMCallsWithoutClient(ns, index, p, r) ==
    LET c == BuildContext(p, r)
    IN  IF r = "raise" THEN NoCalls
        ELSE IF c # NoCitekey /\ index[c] # NoPath /\ c \in DOMAIN ns
        THEN IF PdfPathChanged(ns, c, p) THEN NoCalls
             ELSE [summary |-> SummaryShouldRegen(ns, c),
                   tags |-> TagShouldRegen(ns, c)]
        ELSE [summary |-> llm.summary_enabled, tags |-> llm.tag_enabled]

\* The LLM calls _process_pdf attempts on path p: none on a path drift or a
\* skip, the pending ones on a resume, both enabled ones on a creation.
LLMCalls(ns, index, p, r) ==
    LET c == BuildContext(p, r)
    IN  IF r = "raise" \/ ~llm.client THEN NoCalls
        ELSE IF c # NoCitekey /\ index[c] # NoPath /\ c \in DOMAIN ns
        THEN IF PdfPathChanged(ns, c, p) THEN NoCalls
             ELSE [summary |-> SummaryShouldRegen(ns, c),
                   tags |-> TagShouldRegen(ns, c)]
        ELSE [summary |-> llm.summary_enabled, tags |-> llm.tag_enabled]

\* Before one LLM call: a gated workflow reserves one call in the ledger
\* and makes the call only if the reservation is granted; the workflow of
\* note/workflow.py makes the call without asking.
Gate(call, current) ==
    IF call /\ llm.gated THEN Reserved(current, 1, daily_limit)
    ELSE {[result |-> TRUE, stored |-> current]}

\* What the workflow gets from the call: the LLM's answer, nothing when the
\* reservation was refused.
Answer(g, r) == IF g.result THEN r ELSE "refused"

\* The ledger's history after the reservation g, if one was made.
LHAfter(lhist, call, g, day) ==
    IF call /\ llm.gated
    THEN [lhist EXCEPT !.calls[day] = @ + 1,
                       !.ok[day] = IF g.result THEN @ + 1 ELSE @,
                       !.n = 1,
                       !.result = g.result]
    ELSE lhist

\* The outcome counters after _process_pdf_safe.
\* A count that leaves out the calls that raised.
CountWithoutErrors(cs, result) ==
    CASE result = "created" -> [cs EXCEPT !.created = @ + 1]
      [] result = "updated" -> [cs EXCEPT !.updated = @ + 1]
      [] result = "skipped" -> [cs EXCEPT !.skipped = @ + 1]
      [] OTHER -> cs

Count(cs, result) ==
    CASE result = "created" -> [cs EXCEPT !.created = @ + 1]
      [] result = "updated" -> [cs EXCEPT !.updated = @ + 1]
      [] result = "skipped" -> [cs EXCEPT !.skipped = @ + 1]
      [] OTHER -> [cs EXCEPT !.errors = @ + 1]

(* ------------------------------ history ------------------------------- *)

Zero(S) == [x \in S |-> 0]

\* Per path, since the file last changed on disk: deliveries by an initial
\* scan (sdeliv) and by a filesystem event (edeliv), visits by an initial
\* scan (scans), visits skipped (skips), any visit with force (forced).
\* Per run: deliveries by this run's initial scan (this_scan) of the paths
\* it found (visited); notes created per citekey (created) and whether the
\* citekey was processed again after that (later).
\* owed: paths recorded in the files table and delivered whose note
\* workflow has not run since and whose entry was not dropped.
\* delay: per path, the delay the processor scheduled at its last backoff.
\* order: per run, the notes created, in order, with the statuses they were
\* written with; llm_failed: an LLM call of this run returned nothing or
\* raised; skeleton: _process_pdf ran in this run without a Zotero record.
\* opts: the options the run was started with, while still to be parsed.
\* op: the pending-queue operation called last, when called on its own.
\* llm_call: the LLM client method called last, when called on its own, with
\* what its chat-completion request did and what the method did.
\* wf: in --path mode, the last _process_pdf_safe call: its path, what the
\* Zotero lookup, the two LLM calls and the note write did, which LLM calls
\* were made, and how it ended.
\* raised: the last _process_pdf_safe call raised and run_once has not yet
\* dealt with it.
\* notified: llm_limit_notified, where the ledger's reads are modelled.
\* tick: the limit run_once was called with, and the entries get_due gave it,
\* where run_once is called with a limit.
HStart(old) ==
    [old EXCEPT !.this_scan = Zero(Paths), !.visited = {},
                !.created = Zero(Citekeys), !.later = {},
                !.order = <<>>, !.llm_failed = FALSE, !.skeleton = FALSE,
                !.raised = FALSE]

\* The options of zotomatic scan.
PathArgLists ==
    UNION {[1..n -> PathArgs] : n \in 1..MaxPathArgs}

Options ==
    [once : BOOLEAN, watch : BOOLEAN, path : {<<>>} \cup PathArgLists,
     force : BOOLEAN]

NoOp == [name |-> "none", path |-> NoPath, limit |-> 0]

NoLLMCall == [method |-> "none", pdf_path |-> NoPath, mode |-> "",
              completion |-> "none", result |-> "none"]

NoWf == [path |-> NoPath, r |-> "none", rs |-> "none", rt |-> "none",
         w |-> TRUE, summary_called |-> FALSE, tags_called |-> FALSE,
         result |-> "none"]

NoOpts == [once |-> FALSE, watch |-> FALSE, path |-> <<>>, force |-> FALSE]

HInit ==
    [sdeliv |-> Zero(Paths), edeliv |-> Zero(Paths), scans |-> Zero(Paths),
     skips |-> Zero(Paths), forced |-> {}, this_scan |-> Zero(Paths),
     visited |-> {}, created |-> Zero(Citekeys), later |-> {}, owed |-> {},
     delay |-> Zero(Paths), order |-> <<>>, llm_failed |-> FALSE,
     skeleton |-> FALSE, opts |-> NoOpts, op |-> NoOp,
     llm_call |-> NoLLMCall, wf |-> NoWf, raised |-> FALSE,
     notified |-> FALSE,
     tick |-> [limit |-> batch_limit, batch |-> <<>>]]

HChanged(old, p) ==
    [old EXCEPT !.sdeliv[p] = 0, !.edeliv[p] = 0, !.scans[p] = 0,
                !.skips[p] = 0, !.forced = @ \ {p}]

\* The ledger's calls: per day the number of calls and of those that returned
\* true; the last call's n and result.
LHInit == [calls |-> Zero(Days), ok |-> Zero(Days), n |-> 0, result |-> FALSE]

(* --------------------------- process start ---------------------------- *)

NoSummary == [printed |-> FALSE]

\* run_scan up to the main loop: the volatile state of a new process.
StartRun(mode, force) ==
    /\ scan_mode' = mode
    /\ scan_force' = force
    /\ pc' = "loop"
    /\ exit_reason' = "none"
    /\ scan_paths' = <<>>
    /\ seed_batch' = <<>>
    /\ due_entries' = <<>>
    /\ outcome' = "none"
    /\ processed' = 0
    /\ wake_at' = now
    /\ pending_seed_buffer' = <<>>
    /\ runtime_seed_complete' = FALSE
    /\ boot_seed_complete' = meta_boot_seed_complete
    /\ stop_event' = FALSE
    /\ citekey_index' = BuildCitekeyIndex(notes)
    /\ counters' = [created |-> 0, updated |-> 0, skipped |-> 0, errors |-> 0]
    /\ error_paths' = <<>>
    /\ dropped_count' = 0
    /\ dropped_paths' = <<>>
    /\ summary' = NoSummary
    /\ wpc' = "scan"
    /\ scan_todo' = DOMAIN disk
    /\ wpath' = NoPath
    /\ events' = {}
    /\ skipped_by_state' = 0
    /\ released' = FALSE

Modes == {"once", "watch"}

ZoteroLibraries ==
    {[p \in Paths |-> IF p = "a.pdf" THEN "smith2020" ELSE c] :
       c \in Citekeys \cup {NoCitekey}}

LLMOff == [client |-> FALSE, summary_enabled |-> TRUE, tag_enabled |-> TRUE,
           gated |-> FALSE]

\* The state when run_scan enters its main loop for the first time: the
\* PDFs of disk0 in the watch directory, an empty state database but for
\* boot_seed_complete (boot0), no notes.
InitEngine(disk0, boot0, libraries, modes, forces) ==
    /\ now = 0
    /\ disk = disk0
    /\ files = <<>>
    /\ pending = {}
    /\ meta_boot_seed_complete = boot0
    /\ notes = <<>>
    /\ zotero \in libraries
    /\ scan_mode \in modes
    /\ scan_force \in forces
    /\ pc = IF scan_mode = "none" THEN "parse" ELSE "loop"
    /\ exit_reason = "none"
    /\ scan_paths = <<>>
    /\ seed_batch = <<>>
    /\ due_entries = <<>>
    /\ outcome = "none"
    /\ processed = 0
    /\ wake_at = 0
    /\ pending_seed_buffer = <<>>
    /\ runtime_seed_complete = FALSE
    /\ boot_seed_complete = boot0
    /\ stop_event = FALSE
    /\ citekey_index = BuildCitekeyIndex(<<>>)
    /\ counters = [created |-> 0, updated |-> 0, skipped |-> 0, errors |-> 0]
    /\ error_paths = <<>>
    /\ dropped_count = 0
    /\ dropped_paths = <<>>
    /\ summary = NoSummary
    /\ wpc = IF scan_mode = "none" THEN "none" ELSE "scan"
    /\ scan_todo = IF scan_mode = "none" THEN {} ELSE DOMAIN disk0
    /\ wpath = NoPath
    /\ events = {}
    /\ skipped_by_state = 0
    /\ released = FALSE
    /\ runs = 1
    /\ fails = Zero(Paths)
    /\ h \in {[HInit EXCEPT !.opts = o] :
                  o \in IF scan_mode = "none" THEN Options ELSE {NoOpts}}

\* No LLM client is configured: the ledger is never called.
LedgerIdle ==
    /\ llm = LLMOff
    /\ daily_limit = 0
    /\ llm_usage = Zero(Days)
    /\ today = 0
    /\ lh = LHInit

InitWith(disk0, boot0, libraries, modes, forces) ==
    /\ InitEngine(disk0, boot0, libraries, modes, forces)
    /\ LedgerIdle

FreshStat == <<0, 100>>

\* A first run on a fresh database, both PDFs present.
Init == InitWith([p \in Paths |-> FreshStat], FALSE, ZoteroLibraries,
                 Modes, BOOLEAN)

(* ----------------------------- the main loop --------------------------- *)

\* A new row starts a new series of attempts.
FailsAfterEnqueue(p) ==
    IF p \in Queued(pending) THEN fails ELSE [fails EXCEPT ![p] = 0]

\* Top of the loop: under the lock, cut the next batch off the seed buffer.
MainSeedTake ==
    /\ pc = "loop"
    /\ IF boot_seed_complete
       THEN /\ pc' = "tick"
            /\ UNCHANGED <<seed_batch, pending_seed_buffer>>
       ELSE /\ seed_batch' = Take(pending_seed_buffer, batch_limit)
            /\ pending_seed_buffer' = Drop(pending_seed_buffer, batch_limit)
            /\ pc' = "seed_enq"
    /\ UNCHANGED <<now, durable, runv, exit_reason,
                   due_entries, outcome, processed, wake_at,
                   runtime_seed_complete, boot_seed_complete, stop_event,
                   flowv, dropv, summary, watchv, llmv, histv>>

\* for path in seed_batch: pending_queue.enqueue(path)
MainSeedEnqueue ==
    /\ pc = "seed_enq"
    /\ seed_batch # <<>>
    /\ pending' = Enqueue(pending, Head(seed_batch), now)
    /\ fails' = FailsAfterEnqueue(Head(seed_batch))
    /\ seed_batch' = Tail(seed_batch)
    /\ UNCHANGED <<now, disk, files, meta_boot_seed_complete, notes, zotero,
                   runv, pc, exit_reason, due_entries,
                   outcome, processed, wake_at, pending_seed_buffer,
                   runtime_seed_complete, boot_seed_complete, stop_event,
                   flowv, dropv, summary, watchv, llmv, runs, h, lh>>

\* if runtime_seed_complete and not pending_seed_buffer: mark the boot seed
\* complete, in the database and in the process.
MainSeedComplete ==
    /\ pc = "seed_enq"
    /\ seed_batch = <<>>
    /\ IF runtime_seed_complete /\ pending_seed_buffer = <<>>
       THEN /\ meta_boot_seed_complete' = TRUE
            /\ boot_seed_complete' = TRUE
       ELSE UNCHANGED <<meta_boot_seed_complete, boot_seed_complete>>
    /\ pc' = "tick"
    /\ UNCHANGED <<now, disk, files, pending, notes, zotero, runv, exit_reason, seed_batch, due_entries, outcome,
                   processed, wake_at, pending_seed_buffer,
                   runtime_seed_complete, stop_event, flowv, dropv, summary,
                   watchv, llmv, histv>>

\* The same two statements as the separate steps they are for the watcher
\* thread: first the test of runtime_seed_complete and the buffer ...
MainSeedCheck ==
    /\ pc = "seed_enq"
    /\ seed_batch = <<>>
    /\ pc' = IF runtime_seed_complete /\ pending_seed_buffer = <<>>
             THEN "seed_set" ELSE "tick"
    /\ UNCHANGED <<now, durable, runv, exit_reason, seed_batch, due_entries,
                   outcome, processed, wake_at, pending_seed_buffer,
                   runtime_seed_complete, boot_seed_complete, stop_event,
                   flowv, dropv, summary, watchv, llmv, histv>>

\* ... then meta.set("boot_seed_complete", "1"); boot_seed_complete = True.
MainSeedSet ==
    /\ pc = "seed_set"
    /\ meta_boot_seed_complete' = TRUE
    /\ boot_seed_complete' = TRUE
    /\ pc' = "tick"
    /\ UNCHANGED <<now, disk, files, pending, notes, zotero, runv, exit_reason,
                   seed_batch, due_entries, outcome, processed, wake_at,
                   pending_seed_buffer, runtime_seed_complete, stop_event,
                   flowv, dropv, summary, watchv, llmv, histv>>

\* run_once: due_entries = self._queue.get_due(limit=limit)
RunOnceGetDue ==
    /\ pc = "tick"
    /\ \E d \in GetDue(pending, now, batch_limit) : due_entries' = d
    /\ processed' = 0
    /\ pc' = "entry"
    /\ UNCHANGED <<now, durable, runv, exit_reason,
                   seed_batch, outcome, wake_at, pending_seed_buffer,
                   runtime_seed_complete, boot_seed_complete, stop_event,
                   flowv, dropv, summary, watchv, llmv, histv>>

\* run_once(limit): due_entries = self._queue.get_due(limit=limit), for a
\* caller that passes the limit.
RunOnceGetDueLimit ==
    /\ pc = "tick"
    /\ \E limit \in 1..MaxGetDueLimit :
         \E d \in GetDue(pending, now, limit) :
            /\ due_entries' = d
            /\ h' = [h EXCEPT !.tick = [limit |-> limit, batch |-> d]]
    /\ processed' = 0
    /\ pc' = "entry"
    /\ UNCHANGED <<now, durable, runv, exit_reason,
                   seed_batch, outcome, wake_at, pending_seed_buffer,
                   runtime_seed_complete, boot_seed_complete, stop_event,
                   flowv, dropv, summary, watchv, llmv, runs, fails, lh>>

\* The history after _process_pdf ran for path p with citekey c.
HAfterProcess(p, c, result) ==
    [h EXCEPT !.owed = @ \ {p},
              !.created = IF c # NoCitekey /\ result = "created"
                          THEN [@ EXCEPT ![c] = @ + 1] ELSE @,
              !.later = IF c # NoCitekey /\ h.created[c] > 0
                        THEN @ \cup {c} ELSE @]

\* _process_pdf_safe(p): the workflow's effect on notes, index, counters and
\* error list.
ProcessPdfSafe(p, res, c, llm_failed, wf) ==
    /\ notes' = res.notes
    /\ citekey_index' = res.index
    /\ counters' = Count(counters, res.result)
    /\ error_paths' = IF res.result = "raised" THEN Append(error_paths, p)
                      ELSE error_paths
    /\ h' = [HAfterProcess(p, c, res.result) EXCEPT
               !.order = IF c # NoCitekey /\ res.result = "created"
                         THEN Append(@, [citekey |-> c,
                                         summary_status |-> res.notes[c].summary_status,
                                         tag_status |-> res.notes[c].tag_status])
                         ELSE @,
               !.llm_failed = @ \/ llm_failed,
               !.wf = IF scan_mode = "path" THEN wf ELSE @,
               !.raised = (res.result = "raised"),
               !.skeleton = @ \/ (c = NoCitekey /\ res.result # "raised")]

\* _process_pdf_safe(p) with its LLM calls and their reservations: r is what
\* the Zotero lookup does, rs and rt what the LLM answers, w whether the
\* note can be written.
ProcessPdfGated(p, r, rs, rt, w) ==
    LET calls == LLMCalls(notes, citekey_index, p, r)
    IN \E gs \in Gate(calls.summary, llm_usage[today]) :
         \E gt \in Gate(calls.tags, gs.stored) :
            LET res == ProcessPdf(notes, citekey_index, p, r,
                                  Answer(gs, rs), Answer(gt, rt), w)
            IN /\ ProcessPdfSafe(p, res, BuildContext(p, r),
                                 \/ calls.summary /\ gs.result /\ rs # "text"
                                 \/ calls.tags /\ gt.result /\ rt # "text",
                                 [path |-> p, r |-> r, rs |-> rs, rt |-> rt,
                                  w |-> w,
                                  summary_called |-> calls.summary /\ gs.result,
                                  tags_called |-> calls.tags /\ gt.result,
                                  result |-> res.result])
               /\ llm_usage' = [llm_usage EXCEPT ![today] = gt.stored]
               /\ lh' = LHAfter(LHAfter(lh, calls.summary, gs, today),
                                calls.tags, gt, today)
               /\ outcome' = IF res.result = "raised" THEN "error" ELSE "ok"

\* A processor that takes every answer of the resolver for a record.
NotPaperNever(r1) == FALSE

\* run_once: `if not paper:` on what get_paper_by_pdf returned.
NotPaper(r1) == r1 = "none"

\* _notify_llm_limit_reached: does it get as far as reading the day's total
\* from the ledger?
NotifyReads(notified) ==
    /\ ~notified
    /\ llm.client
    /\ llm.summary_enabled \/ llm.tag_enabled
    /\ daily_limit > 0

\* _process_pdf_safe(p) where the ledger's read in _notify_llm_limit_reached
\* can fail (fault): _process_pdf calls it after it has counted a created
\* or an updated note, and the exception leaves _process_pdf.  used is the
\* day's total after the call's reservations.
ProcessPdfSafeNotify(p, res, c, llm_failed, wf, used, fault) ==
    LET reads == res.result \in {"created", "updated"} /\ NotifyReads(h.notified)
        late == reads /\ fault
        counted == Count(counters, res.result)
    IN  /\ notes' = res.notes
        /\ citekey_index' = res.index
        /\ counters' = IF late THEN Count(counted, "raised") ELSE counted
        /\ error_paths' = IF res.result = "raised" \/ late
                          THEN Append(error_paths, p) ELSE error_paths
        /\ h' = [HAfterProcess(p, c, res.result) EXCEPT
                   !.order = IF c # NoCitekey /\ res.result = "created"
                             THEN Append(@, [citekey |-> c,
                                             summary_status |-> res.notes[c].summary_status,
                                             tag_status |-> res.notes[c].tag_status])
                             ELSE @,
                   !.llm_failed = @ \/ llm_failed,
                   !.wf = IF scan_mode = "path" THEN wf ELSE @,
                   !.raised = (res.result = "raised" \/ late),
                   !.notified = @ \/ (reads /\ ~fault /\ used >= daily_limit),
                   !.skeleton = @ \/ (c = NoCitekey /\ res.result # "raised")]

\* _process_pdf_safe(p) with its LLM calls, their reservations and the
\* ledger's read that follows.
ProcessPdfNotify(p, r, rs, rt, w, fault) ==
    LET calls == LLMCalls(notes, citekey_index, p, r)
    IN \E gs \in Gate(calls.summary, llm_usage[today]) :
         \E gt \in Gate(calls.tags, gs.stored) :
            LET res == ProcessPdf(notes, citekey_index, p, r,
                                  Answer(gs, rs), Answer(gt, rt), w)
            IN /\ ProcessPdfSafeNotify(p, res, BuildContext(p, r),
                                 \/ calls.summary /\ gs.result /\ rs # "text"
                                 \/ calls.tags /\ gt.result /\ rt # "text",
                                 [path |-> p, r |-> r, rs |-> rs, rt |-> rt,
                                  w |-> w,
                                  summary_called |-> calls.summary /\ gs.result,
                                  tags_called |-> calls.tags /\ gt.result,
                                  result |-> res.result],
                                 gt.stored, fault)
               /\ llm_usage' = [llm_usage EXCEPT ![today] = gt.stored]
               /\ lh' = LHAfter(LHAfter(lh, calls.summary, gs, today),
                                calls.tags, gt, today)
               /\ outcome' = IF h'.raised THEN "error" ELSE "ok"

\* run_once, one entry up to the callback: the file check, the resolver
\* call and on_resolved.
RunOnceAttempt ==
    /\ pc = "entry"
    /\ due_entries # <<>>
    /\ LET p == Head(due_entries).file_path IN
         IF p \notin DOMAIN disk
         THEN /\ outcome' = "PDF not found"
              /\ UNCHANGED <<notes, flowv, h, llm_usage, lh>>
         ELSE \E r1 \in Lookups(p) :
                IF r1 = "raise"
                THEN /\ outcome' = "error"
                     /\ UNCHANGED <<notes, flowv, h, llm_usage, lh>>
                ELSE IF NotPaper(r1)
                THEN /\ outcome' = "Zotero unresolved"
                     /\ UNCHANGED <<notes, flowv, h, llm_usage, lh>>
                ELSE \E r \in Lookups(p), rs \in LLMResults,
                        rt \in LLMResults, w \in BOOLEAN :
                       ProcessPdfGated(p, r, rs, rt, w)
    /\ pc' = "commit"
    /\ UNCHANGED <<now, disk, files, pending, meta_boot_seed_complete, zotero,
                   runv, exit_reason, seed_batch, due_entries,
                   processed, wake_at, pending_seed_buffer,
                   runtime_seed_complete, boot_seed_complete, stop_event,
                   dropv, summary, watchv, llm, daily_limit, today, runs,
                   fails>>

\* The processor's record of a dropped entry: the count and the path list
\* the summary reads.
DroppedCountAfter(n) == n + 1

DroppedPathsAfter(paths, p) == Append(paths, p)

\* A loop that gives up the batch at the first entry that fails.
RemainingStopsOnFailure(entries, o) ==
    IF o = "ok" THEN Tail(entries) ELSE <<>>

\* run_once, the for loop: after an entry, resolved or backed off
\* (continue), the loop goes on with the entries that follow it.
Remaining(entries, o) == Tail(entries)

\* run_once, the end of one entry: resolve it, or back it off / drop it.
RunOnceCommit ==
    /\ pc = "commit"
    /\ LET e == Head(due_entries)
           p == e.file_path
       IN IF outcome = "ok"
          THEN /\ pending' = Resolve(pending, p)
               /\ processed' = processed + 1
               /\ UNCHANGED <<dropv, fails, h>>
          ELSE /\ pending' = Backoff(pending, p, e.attempt_count, outcome,
                                     e.attempt_count + 1, now)
               /\ fails' = [fails EXCEPT ![p] = @ + 1]
               /\ IF ShouldDrop(e.attempt_count + 1)
                  THEN /\ dropped_count' = DroppedCountAfter(dropped_count)
                       /\ dropped_paths' = DroppedPathsAfter(dropped_paths, p)
                       /\ h' = [h EXCEPT !.owed = @ \ {p}, !.raised = FALSE]
                  ELSE /\ h' = [h EXCEPT !.raised = FALSE,
                                         !.delay[p] =
                                    IF p \in Queued(pending')
                                    THEN Row(pending', p).next_attempt_at - now
                                    ELSE @]
                       /\ UNCHANGED dropv
               /\ UNCHANGED processed
    /\ due_entries' = Remaining(due_entries, outcome)
    /\ outcome' = "none"
    /\ pc' = "entry"
    /\ UNCHANGED <<now, disk, files, meta_boot_seed_complete, notes, zotero,
                   runv, exit_reason, seed_batch, wake_at,
                   pending_seed_buffer, runtime_seed_complete,
                   boot_seed_complete, stop_event, flowv, summary, watchv,
                   llmv, runs, lh>>

\* run_once returns.
RunOnceReturn ==
    /\ pc = "entry"
    /\ due_entries = <<>>
    /\ pc' = "check"
    /\ UNCHANGED <<now, durable, runv, exit_reason,
                   seed_batch, due_entries, outcome, processed, wake_at,
                   pending_seed_buffer, runtime_seed_complete,
                   boot_seed_complete, stop_event, flowv, dropv, summary,
                   watchv, llmv, histv>>

Exit(reason) ==
    /\ exit_reason' = reason
    /\ pc' = "exited"

\* The scan-once completion test (no_due = not get_due(limit=1)).
OnceComplete ==
    /\ runtime_seed_complete
    /\ boot_seed_complete
    /\ pending_seed_buffer = <<>>
    /\ GetDue(pending, now, 1) = {<<>>}

\* End of one iteration: in once mode leave when complete, else sleep; in
\* watch mode wait on the stop event for the loop interval.
MainCheck ==
    /\ pc = "check"
    /\ IF scan_mode = "once"
       THEN IF OnceComplete
            THEN Exit("completed") /\ UNCHANGED wake_at
            ELSE /\ pc' = "sleep"
                 /\ wake_at' = now + loop_interval_seconds
                 /\ UNCHANGED exit_reason
       ELSE IF stop_event
            THEN Exit("stopped") /\ UNCHANGED wake_at
            ELSE /\ pc' = "sleep"
                 /\ wake_at' = now + loop_interval_seconds
                 /\ UNCHANGED exit_reason
    /\ UNCHANGED <<now, durable, runv, seed_batch,
                   due_entries, outcome, processed, pending_seed_buffer,
                   runtime_seed_complete, boot_seed_complete, stop_event,
                   flowv, dropv, summary, watchv, llmv, histv>>

\* A wait that sleeps to its deadline whatever the event.
StopEventWaitSleeps(set, t, deadline) ==
    IF t >= deadline THEN "timeout" ELSE "waiting"

\* stop_event.wait(interval) at time t, the interval ending at deadline: it
\* returns True as soon as the event is set, False at the deadline.
StopEventWait(set, t, deadline) ==
    IF set THEN "set"
    ELSE IF t >= deadline THEN "timeout" ELSE "waiting"

\* time.sleep(interval) returns / stop_event.wait(interval) returns.
MainWake ==
    /\ pc = "sleep"
    /\ IF scan_mode = "watch"
       THEN LET woke == StopEventWait(stop_event, now, wake_at)
            IN  /\ woke # "waiting"
                /\ IF woke = "set"
                   THEN Exit("stopped")
                   ELSE pc' = "loop" /\ UNCHANGED exit_reason
       ELSE /\ now >= wake_at
            /\ pc' = "loop"
            /\ UNCHANGED exit_reason
    /\ UNCHANGED <<now, durable, runv, seed_batch,
                   due_entries, outcome, processed, wake_at,
                   pending_seed_buffer, runtime_seed_complete,
                   boot_seed_complete, stop_event, flowv, dropv, summary,
                   watchv, llmv, histv>>

Running == pc \notin {"exited", "done"}

\* except KeyboardInterrupt: stop_event.set()
Interrupt ==
    /\ Running
    /\ stop_event' = TRUE
    /\ Exit("interrupted")
    /\ UNCHANGED <<now, durable, runv, seed_batch,
                   due_entries, outcome, processed, wake_at,
                   pending_seed_buffer, runtime_seed_complete,
                   boot_seed_complete, flowv, dropv, summary, watchv, llmv,
                   histv>>

\* Any other exception raised inside the loop (a database operation of the
\* main thread fails): it is not caught in run_scan.
Raise ==
    /\ Running
    /\ Exit("error")
    /\ UNCHANGED <<now, durable, runv, seed_batch,
                   due_entries, outcome, processed, wake_at,
                   pending_seed_buffer, runtime_seed_complete,
                   boot_seed_complete, stop_event, flowv, dropv, summary,
                   watchv, llmv, histv>>

\* Another thread sets the stop signal.
StopRequested ==
    /\ Running
    /\ scan_mode = "watch"
    /\ ~stop_event
    /\ stop_event' = TRUE
    /\ UNCHANGED <<now, durable, runv, pc, exit_reason,
                   seed_batch, due_entries, outcome, processed, wake_at,
                   pending_seed_buffer, runtime_seed_complete,
                   boot_seed_complete, flowv, dropv, summary, watchv, llmv,
                   histv>>

\* The summary run_scan prints in once / watch mode.
Summary ==
    [printed |-> TRUE,
     created |-> counters.created,
     updated |-> counters.updated,
     skipped |-> counters.skipped,
     pending |-> Cardinality(pending),
     dropped |-> dropped_count,
     errors |-> counters.errors,
     dropped_listed |-> Take(dropped_paths, 10)]

\* A release that is skipped when the block is left by an exception.
WatcherExitOnReturn(reason) == reason # "error"

\* PDFStorageWatcher.__exit__: whether the subscription is released when the
\* with block is left for the given reason.
WatcherExit(reason) == TRUE

\* Leaving the with block releases the watcher; then the summary is printed,
\* unless an exception is on its way out of run_scan.
Finish ==
    /\ pc = "exited"
    /\ released' = WatcherExit(exit_reason)
    /\ wpc' = IF released' THEN "stopped" ELSE wpc
    /\ wpath' = IF released' THEN NoPath ELSE wpath
    /\ summary' = IF exit_reason = "error" THEN summary ELSE Summary
    /\ pc' = "done"
    /\ UNCHANGED <<now, durable, runv, exit_reason,
                   seed_batch, due_entries, outcome, processed, wake_at,
                   pending_seed_buffer, runtime_seed_complete,
                   boot_seed_complete, stop_event, flowv, dropv, scan_todo,
                   events, skipped_by_state, llmv, histv>>

\* The clock advances while the main thread sleeps (it wakes on time) or
\* no process runs.
Tick ==
    /\ \/ pc = "sleep" /\ now < wake_at
       \/ pc = "done"
    /\ now < MaxTime
    /\ now' = now + 1
    /\ UNCHANGED <<durable, mainv, flowv, dropv, summary, watchv, llmv, histv>>

\* The process is killed and zotomatic scan is started again.
Crash ==
    /\ pc # "done"
    /\ runs < MaxRuns
    /\ runs' = runs + 1
    /\ h' = HStart(h)
    /\ \E mode \in Modes, force \in BOOLEAN : StartRun(mode, force)
    /\ UNCHANGED <<now, durable, llmv, fails, lh>>

\* zotomatic scan is run again after the previous run ended.
Restart ==
    /\ pc = "done"
    /\ runs < MaxRuns
    /\ runs' = runs + 1
    /\ h' = HStart(h)
    /\ \E mode \in Modes, force \in BOOLEAN : StartRun(mode, force)
    /\ UNCHANGED <<now, durable, llmv, fails, lh>>

(* ------------------------- options and --path -------------------------- *)

\* A choice that falls back on watching, as the help text of --watch says.
SelectModeDefaultWatch(o) ==
    LET given == (IF o.path # <<>> THEN 1 ELSE 0) + (IF o.once THEN 1 ELSE 0)
                 + (IF o.watch THEN 1 ELSE 0)
    IN  IF given > 1 THEN [error |-> TRUE, mode |-> "none"]
        ELSE IF o.path # <<>> /\ o.force THEN [error |-> TRUE, mode |-> "none"]
        ELSE [error |-> FALSE,
              mode |-> IF o.path # <<>> THEN "path"
                       ELSE IF o.once THEN "once" ELSE "watch"]

\* run_scan's choice of the scan mode from the options; error is the
\* ZotomaticCLIError it raises.
SelectMode(o) ==
    LET given == (IF o.path # <<>> THEN 1 ELSE 0) + (IF o.once THEN 1 ELSE 0)
                 + (IF o.watch THEN 1 ELSE 0)
    IN  IF given > 1 THEN [error |-> TRUE, mode |-> "none"]
        ELSE IF o.path # <<>> /\ o.force THEN [error |-> TRUE, mode |-> "none"]
        ELSE [error |-> FALSE,
              mode |-> IF o.path # <<>> THEN "path"
                       ELSE IF o.once \/ ~o.watch THEN "once" ELSE "watch"]

\* The process's exit code: main() turns a ZotomaticError into 1.
ExitCode == IF exit_reason \in {"cli_error", "error"} THEN 1 ELSE 0

\* run_scan, the options: reject them, or fix mode, force and paths.
ParseOptions ==
    /\ pc = "parse"
    /\ LET sel == SelectMode(h.opts)
       IN IF sel.error
          THEN /\ exit_reason' = "cli_error"
               /\ pc' = "done"
               /\ UNCHANGED runv
          ELSE /\ scan_mode' = sel.mode
               /\ scan_force' = h.opts.force
               /\ scan_paths' = h.opts.path
               /\ pc' = IF sel.mode = "path" THEN "validate" ELSE "loop"
               /\ UNCHANGED exit_reason
    /\ UNCHANGED <<now, durable, seed_batch, due_entries, outcome, processed,
                   wake_at, pending_seed_buffer, runtime_seed_complete,
                   boot_seed_complete, stop_event, flowv, dropv, summary,
                   watchv, llmv, histv>>

\* path.exists() and path.is_file()
IsFile(p) == p \in DOMAIN disk

\* A validation that looks at the first path only.
InvalidFirstPath(ps) == {i \in 1..Min(1, Len(ps)) : ~IsFile(ps[i])}

\* The positions of the paths that are not existing regular files.
InvalidPaths(ps) == {i \in 1..Len(ps) : ~IsFile(ps[i])}

\* --path: every path must be an existing regular file, else the run fails.
PathValidate ==
    /\ pc = "validate"
    /\ IF InvalidPaths(scan_paths) # {}
       THEN /\ exit_reason' = "cli_error"
            /\ pc' = "done"
       ELSE /\ pc' = "path"
            /\ UNCHANGED exit_reason
    /\ UNCHANGED <<now, durable, runv, seed_batch, due_entries, outcome,
                   processed, wake_at, pending_seed_buffer,
                   runtime_seed_complete, boot_seed_complete, stop_event,
                   flowv, dropv, summary, watchv, llmv, histv>>

\* A loop over the paths that gives up at the first failure.
PathProcessStopsOnError ==
    /\ pc = "path"
    /\ scan_paths # <<>>
    /\ \E r \in Lookups(Head(scan_paths)), rs \in LLMResults,
          rt \in LLMResults, w \in BOOLEAN :
         ProcessPdfGated(Head(scan_paths), r, rs, rt, w)
    /\ scan_paths' = IF outcome' = "error" THEN <<>> ELSE Tail(scan_paths)
    /\ UNCHANGED <<now, disk, files, pending, meta_boot_seed_complete, zotero,
                   scan_mode, scan_force, pc, exit_reason, seed_batch,
                   due_entries, processed, wake_at, pending_seed_buffer,
                   runtime_seed_complete, boot_seed_complete, stop_event,
                   dropv, summary, watchv, llm, daily_limit, today, runs,
                   fails>>

\* --path: _process_pdf_safe on the next path; a failure is swallowed.
PathProcess ==
    /\ pc = "path"
    /\ scan_paths # <<>>
    /\ \E r \in Lookups(Head(scan_paths)), rs \in LLMResults,
          rt \in LLMResults, w \in BOOLEAN :
         ProcessPdfGated(Head(scan_paths), r, rs, rt, w)
    /\ scan_paths' = Tail(scan_paths)
    /\ UNCHANGED <<now, disk, files, pending, meta_boot_seed_complete, zotero,
                   scan_mode, scan_force, pc, exit_reason, seed_batch,
                   due_entries, processed, wake_at, pending_seed_buffer,
                   runtime_seed_complete, boot_seed_complete, stop_event,
                   dropv, summary, watchv, llm, daily_limit, today, runs,
                   fails>>

\* --path: _process_pdf_safe on the next path, the ledger's read failing or
\* not.
PathProcessNotify ==
    /\ pc = "path"
    /\ scan_paths # <<>>
    /\ \E r \in Lookups(Head(scan_paths)), rs \in LLMResults,
          rt \in LLMResults, w \in BOOLEAN, fault \in BOOLEAN :
         ProcessPdfNotify(Head(scan_paths), r, rs, rt, w, fault)
    /\ scan_paths' = Tail(scan_paths)
    /\ UNCHANGED <<now, disk, files, pending, meta_boot_seed_complete, zotero,
                   scan_mode, scan_force, pc, exit_reason, seed_batch,
                   due_entries, processed, wake_at, pending_seed_buffer,
                   runtime_seed_complete, boot_seed_complete, stop_event,
                   dropv, summary, watchv, llm, daily_limit, today, runs,
                   fails>>

\* The summary of --path mode: pending and dropped are printed as 0.
PathSummary ==
    [printed |-> TRUE,
     created |-> counters.created,
     updated |-> counters.updated,
     skipped |-> counters.skipped,
     pending |-> 0,
     dropped |-> 0,
     errors |-> counters.errors,
     dropped_listed |-> <<>>]

\* --path: all paths done, the summary is printed and run_scan returns 0.
PathFinish ==
    /\ pc = "path"
    /\ scan_paths = <<>>
    /\ summary' = PathSummary
    /\ exit_reason' = "completed"
    /\ pc' = "done"
    /\ UNCHANGED <<now, durable, runv, seed_batch, due_entries, outcome,
                   processed, wake_at, pending_seed_buffer,
                   runtime_seed_complete, boot_seed_complete, stop_event,
                   flowv, dropv, watchv, llmv, histv>>

(* ------------------------------ the watcher ---------------------------- *)

\* The dedup test: the stored row matches the file and force is off.
ShouldSkip(rows, p, stat, force) ==
    /\ Get(rows, p) # NoStat
    /\ Get(rows, p) = stat
    /\ ~force

\* The flag not handed to the watcher.
ForceScanOff == FALSE

\* WatcherConfig.from_settings(..., force_scan=scan_force)
ForceScan == scan_force

\* _on_pdf_created: with the boot seed complete the path is enqueued; else
\* it is appended to the seed buffer, under the lock, in a later step
\* (wpath holds it meanwhile).
OnPdfCreated(p) ==
    IF boot_seed_complete
    THEN /\ pending' = Enqueue(pending, p, now)
         /\ fails' = FailsAfterEnqueue(p)
         /\ UNCHANGED wpath
    ELSE /\ wpath' = p
         /\ UNCHANGED <<pending, fails>>

WatcherIdle == wpc \in {"scan", "events"} /\ wpath = NoPath /\ ~released

\* Initial scan, one path of the walk.
WatcherScanFile(p) ==
    /\ WatcherIdle
    /\ wpc = "scan"
    /\ p \in scan_todo
    /\ scan_todo' = scan_todo \ {p}
    /\ IF p \notin DOMAIN disk
       THEN UNCHANGED <<files, pending, fails, wpath, skipped_by_state, h>>
       ELSE IF ShouldSkip(files, p, disk[p], ForceScan)
       THEN /\ skipped_by_state' = skipped_by_state + 1
            /\ h' = [h EXCEPT !.scans[p] = @ + 1, !.skips[p] = @ + 1,
                              !.visited = @ \cup {p}]
            /\ UNCHANGED <<files, pending, fails, wpath>>
       ELSE /\ files' = Upsert(files, p, disk[p])
            /\ OnPdfCreated(p)
            /\ h' = [h EXCEPT !.scans[p] = @ + 1, !.sdeliv[p] = @ + 1,
                              !.this_scan[p] = @ + 1,
                              !.visited = @ \cup {p},
                              !.forced = IF scan_force THEN @ \cup {p} ELSE @,
                              !.owed = @ \cup {p}]
            /\ UNCHANGED skipped_by_state
    /\ UNCHANGED <<now, disk, meta_boot_seed_complete, notes, zotero, mainv,
                   flowv, dropv, summary, wpc, events, released, llmv, runs,
                   lh>>

\* with pending_seed_lock: pending_seed_buffer.append(pdf_path)
WatcherAppend ==
    /\ wpath # NoPath
    /\ ~released
    /\ pending_seed_buffer' = Append(pending_seed_buffer, wpath)
    /\ wpath' = NoPath
    /\ UNCHANGED <<now, durable, runv, pc, exit_reason,
                   seed_batch, due_entries, outcome, processed, wake_at,
                   runtime_seed_complete, boot_seed_complete, stop_event,
                   flowv, dropv, summary, wpc, scan_todo, events,
                   skipped_by_state, released, llmv, histv>>

\* End of the walk: _on_initial_scan_complete.
WatcherScanComplete ==
    /\ WatcherIdle
    /\ wpc = "scan"
    /\ scan_todo = {}
    /\ runtime_seed_complete' = TRUE
    /\ wpc' = "events"
    /\ UNCHANGED <<now, durable, runv, pc, exit_reason,
                   seed_batch, due_entries, outcome, processed, wake_at,
                   pending_seed_buffer, boot_seed_complete, stop_event,
                   flowv, dropv, summary, scan_todo, wpath, events,
                   skipped_by_state, released, llmv, histv>>

\* Steady state: a filesystem event for p, after the stability check.
WatcherEvent(p) ==
    /\ WatcherIdle
    /\ wpc = "events"
    /\ p \in events
    /\ events' = events \ {p}
    /\ IF p \notin DOMAIN disk \/ ShouldSkip(files, p, disk[p], ForceScan)
       THEN UNCHANGED <<files, pending, fails, wpath, h>>
       ELSE /\ files' = Upsert(files, p, disk[p])
            /\ OnPdfCreated(p)
            /\ h' = [h EXCEPT !.edeliv[p] = @ + 1, !.owed = @ \cup {p}]
    /\ UNCHANGED <<now, disk, meta_boot_seed_complete, notes, zotero, mainv,
                   flowv, dropv, summary, wpc, scan_todo, skipped_by_state,
                   released, llmv, runs, lh>>

(* --------------------------- the environment -------------------------- *)

\* A PDF is rewritten: a later mtime, any size; the subscription, if one
\* is active, reports it.
Touch(p) ==
    /\ p \in DOMAIN disk
    /\ disk[p][1] < MaxMtime
    /\ \E size \in Sizes : disk' = [disk EXCEPT ![p] = <<disk[p][1] + 1, size>>]
    /\ events' = IF released \/ pc = "done" THEN events ELSE events \cup {p}
    /\ h' = HChanged(h, p)
    /\ UNCHANGED <<now, files, pending, meta_boot_seed_complete, notes,
                   zotero, mainv, flowv, dropv, summary, wpc, scan_todo,
                   wpath, skipped_by_state, released, llmv, runs, fails, lh>>

\* A PDF is removed for good.
Delete(p) ==
    /\ p \in DOMAIN disk
    /\ disk' = Without(disk, p)
    /\ h' = HChanged(h, p)
    /\ UNCHANGED <<now, files, pending, meta_boot_seed_complete, notes,
                   zotero, mainv, flowv, dropv, summary, watchv, llmv, runs,
                   fails, lh>>

(* ----------------------- state store: transactions -------------------- *)

\* Where one operation on the database can fail: opening the connection,
\* executing the statement, committing.
Faults == {"none", "open", "execute", "commit"}

Stats == (0..MaxMtime) \X Sizes

\* A rollback after which the statement's write is still there.
RollbackKeepsWrite(conn) == conn.working

\* conn.rollback(): the table is what was last committed.
Rollback(conn) == conn.committed

\* conn.commit(): the table is what the transaction wrote.
Commit(conn) == conn.working

\* _connect around one upsert statement: the table afterwards and whether
\* WatcherStateRepositoryError was raised.
UpsertFileState(rows, p, stat, fault) ==
    IF fault = "open" THEN [rows |-> rows, raised |-> TRUE]
    ELSE LET conn0 == [committed |-> rows, working |-> rows]
             conn1 == IF fault = "execute" THEN conn0
                      ELSE [conn0 EXCEPT !.working = Upsert(rows, p, stat)]
         IN  IF fault \in {"execute", "commit"}
             THEN [rows |-> Rollback(conn1), raised |-> TRUE]
             ELSE [rows |-> Commit(conn1), raised |-> FALSE]

\* _connect around one select: the row read, None when absent or when the
\* read failed, and whether WatcherStateRepositoryError was raised.
GetFileState(rows, p, fault) ==
    IF fault \in {"open", "execute", "commit"}
    THEN [rows |-> rows, raised |-> TRUE, row |-> NoStat]
    ELSE [rows |-> rows, raised |-> FALSE, row |-> Get(rows, p)]

StoreUnchanged ==
    UNCHANGED <<now, disk, pending, meta_boot_seed_complete, notes, zotero,
                mainv, flowv, dropv, summary, watchv, llmv, runs, fails, lh>>

\* state_repository.upsert_file_state(state)
StoreUpsertFileState(p, stat, fault) ==
    LET r == UpsertFileState(files, p, stat, fault)
    IN  /\ files' = r.rows
        /\ h' = [h EXCEPT !.op = [name |-> "upsert_file_state", path |-> p,
                                  limit |-> 0, stat |-> stat, fault |-> fault,
                                  raised |-> r.raised]]
        /\ StoreUnchanged

\* state_repository.get_file_state(path)
StoreGetFileState(p, fault) ==
    LET r == GetFileState(files, p, fault)
    IN  /\ files' = r.rows
        /\ h' = [h EXCEPT !.op = [name |-> "get_file_state", path |-> p,
                                  limit |-> 0, stat |-> r.row, fault |-> fault,
                                  raised |-> r.raised]]
        /\ StoreUnchanged

(* ------------------------------ LLM client ---------------------------- *)

SummaryModes == {"quick", "standard", "deep"}

\* What the chat-completion requests of one method call do: return text,
\* return a response without content, or raise a provider error.
Completions == {"text", "empty", "raise"}

\* BaseLLMClient.generate_summary: without a PDF the result is empty; the
\* handler of the mode runs inside try, and any exception gives the empty
\* result.
GenerateSummary(pdf_path, mode, completion) ==
    IF pdf_path = NoPath \/ pdf_path \notin DOMAIN disk THEN "empty"
    ELSE IF completion = "raise" THEN "empty"
    ELSE completion

\* BaseLLMClient.generate_tags: without a PDF the result is empty; the
\* request is made outside any try, an exception leaves the method.
GenerateTags(pdf_path, completion) ==
    IF pdf_path = NoPath \/ pdf_path \notin DOMAIN disk THEN "empty"
    ELSE completion

ClientUnchanged ==
    UNCHANGED <<now, durable, mainv, flowv, dropv, summary, watchv, llmv, runs,
                fails, lh>>

\* llm_client.generate_summary(context)
ClientGenerateSummary(pdf_path, mode, completion) ==
    /\ h' = [h EXCEPT !.llm_call =
                [method |-> "generate_summary", pdf_path |-> pdf_path,
                 mode |-> mode, completion |-> completion,
                 result |-> GenerateSummary(pdf_path, mode, completion)]]
    /\ ClientUnchanged

\* llm_client.generate_tags(context)
ClientGenerateTags(pdf_path, completion) ==
    /\ h' = [h EXCEPT !.llm_call =
                [method |-> "generate_tags", pdf_path |-> pdf_path,
                 mode |-> "", completion |-> completion,
                 result |-> GenerateTags(pdf_path, completion)]]
    /\ ClientUnchanged

\* The comma-separated items of a completion for tags, as result.split(",")
\* gives them: nothing, blanks, a tag, a tag with a blank before it.
TagItems == {"", " ", "ml", " ml", "nlp"}

TagCompletions == UNION {[1..n -> TagItems] : n \in 0..MaxTagItems}

\* item.strip()
Strip(item) ==
    CASE item = " " -> ""
      [] item = " ml" -> "ml"
      [] OTHER -> item

\* generate_tags, the loop over result.split(","): strip each item, skip it
\* when nothing is left or when it is among the tags already, else append.
RECURSIVE ParseTags(_, _)
ParseTags(items, tags) ==
    IF items = <<>> THEN tags
    ELSE LET tag == Strip(Head(items))
         IN  IF tag = "" THEN ParseTags(Tail(items), tags)
             ELSE IF tag \in SeqToSet(tags) THEN ParseTags(Tail(items), tags)
             ELSE ParseTags(Tail(items), Append(tags, tag))

\* llm_client.generate_tags(context) in a process whose settings have
\* llm_tag_limit = limit, the provider answering with the given items.
ClientTagsFrom(limit, pdf_path, items) ==
    /\ h' = [h EXCEPT !.llm_call =
                [method |-> "generate_tags", pdf_path |-> pdf_path,
                 mode |-> "", completion |-> items, limit |-> limit,
                 result |-> IF GenerateTags(pdf_path, "text") = "text"
                            THEN ParseTags(items, <<>>) ELSE <<>>]]
    /\ ClientUnchanged

(* ----------------------- pending queue: its callers ------------------- *)

QueueUnchanged ==
    UNCHANGED <<disk, files, meta_boot_seed_complete, notes, zotero, runv, pc,
                exit_reason, seed_batch, outcome, processed, wake_at,
                pending_seed_buffer, runtime_seed_complete, boot_seed_complete,
                stop_event, flowv, dropv, summary, watchv, llmv, runs, fails,
                lh>>

\* pending_queue.enqueue(p)
QueueEnqueue(p) ==
    /\ pending' = Enqueue(pending, p, now)
    /\ h' = [h EXCEPT !.op = [name |-> "enqueue", path |-> p, limit |-> 0]]
    /\ UNCHANGED <<now, due_entries>>
    /\ QueueUnchanged

\* pending_queue.update_attempt(p, ...), called as _backoff calls it: one
\* more attempt, due after delay.
QueueUpdateAttempt(p, delay) ==
    /\ p \in Queued(pending)
    /\ Row(pending, p).attempt_count < max_attempts
    /\ pending' = UpdateAttempt(pending, p, Row(pending, p).attempt_count + 1,
                                now + delay, "Zotero unresolved")
    /\ h' = [h EXCEPT !.op = [name |-> "update_attempt", path |-> p,
                              limit |-> 0]]
    /\ UNCHANGED <<now, due_entries>>
    /\ QueueUnchanged

\* pending_queue.resolve(p)
QueueResolve(p) ==
    /\ pending' = Resolve(pending, p)
    /\ h' = [h EXCEPT !.op = [name |-> "resolve", path |-> p, limit |-> 0]]
    /\ UNCHANGED <<now, due_entries>>
    /\ QueueUnchanged

\* pending_queue.get_due(limit)
QueueGetDue(limit) ==
    /\ \E d \in GetDue(pending, now, limit) : due_entries' = d
    /\ h' = [h EXCEPT !.op = [name |-> "get_due", path |-> NoPath,
                              limit |-> limit]]
    /\ UNCHANGED <<now, pending>>
    /\ QueueUnchanged

\* Time passes between two calls.
QueueTick ==
    /\ now < MaxTime
    /\ now' = now + 1
    /\ h' = [h EXCEPT !.op = NoOp]
    /\ UNCHANGED <<pending, due_entries>>
    /\ QueueUnchanged

(* --------------------------- LLM usage ledger ------------------------- *)

\* try_reserve(n): one transaction on meta[llm_usage.<today>].
TryReserve(n) ==
    /\ lh.calls[today] < MaxCalls
    /\ \E r \in Reserved(llm_usage[today], n, daily_limit) :
         /\ llm_usage' = [llm_usage EXCEPT ![today] = r.stored]
         /\ lh' = [lh EXCEPT !.calls[today] = @ + 1,
                             !.ok[today] = IF r.result THEN @ + 1 ELSE @,
                             !.n = n,
                             !.result = r.result]
    /\ UNCHANGED <<now, durable, mainv, flowv, dropv, summary, watchv, llm,
                   daily_limit, today, runs, fails, h>>

\* The calendar date changes: the counter of the new date is another key.
NextDay ==
    /\ today < MaxDay
    /\ today' = today + 1
    /\ UNCHANGED <<now, durable, mainv, flowv, dropv, summary, watchv, llm,
                   daily_limit, llm_usage, histv>>

(* ------------------------------ the engine ---------------------------- *)

\* One process on a fresh database; the watch directory does not change
\* while it runs.
Next ==
    \/ MainSeedTake
    \/ MainSeedEnqueue
    \/ MainSeedComplete
    \/ RunOnceGetDue
    \/ RunOnceAttempt
    \/ RunOnceCommit
    \/ RunOnceReturn
    \/ MainCheck
    \/ MainWake
    \/ Interrupt
    \/ StopRequested
    \/ Finish
    \/ Tick
    \/ \E p \in Paths : WatcherScanFile(p)
    \/ WatcherAppend
    \/ WatcherScanComplete

Spec == Init /\ [][Next]_vars

\* The processor in a resident process: the database has the boot seed
\* marked complete, so the watcher enqueues directly; PDFs may disappear.
InitProc == InitWith([p \in Paths |-> FreshStat], TRUE, ZoteroLibraries,
                     {"watch"}, {FALSE})

NextProc ==
    \/ MainSeedTake
    \/ RunOnceGetDue
    \/ RunOnceAttempt
    \/ RunOnceCommit
    \/ RunOnceReturn
    \/ MainCheck
    \/ MainWake
    \/ Tick
    \/ \E p \in Paths : WatcherScanFile(p)
    \/ WatcherScanComplete
    \/ \E p \in Paths : Delete(p)

SpecProc == InitProc /\ [][NextProc]_vars

\* The processor of a resident process, called with a limit of its caller's
\* choice, so that a tick can have several entries.
NextBatch ==
    \/ MainSeedTake
    \/ RunOnceGetDueLimit
    \/ RunOnceAttempt
    \/ RunOnceCommit
    \/ RunOnceReturn
    \/ MainCheck
    \/ MainWake
    \/ Tick
    \/ \E p \in Paths : WatcherScanFile(p)
    \/ WatcherScanComplete
    \/ \E p \in Paths : Delete(p)

SpecBatch == InitProc /\ [][NextBatch]_vars

\* Successive processes on one database, killed or ended and started
\* again, over one PDF that may be rewritten.
InitRuns == InitWith([p \in {"a.pdf"} |-> FreshStat], FALSE,
                     {[p \in Paths |-> IF p = "a.pdf" THEN "smith2020"
                                       ELSE NoCitekey]},
                     Modes, BOOLEAN)

NextRuns ==
    \/ MainSeedTake
    \/ MainSeedEnqueue
    \/ MainSeedComplete
    \/ RunOnceGetDue
    \/ RunOnceAttempt
    \/ RunOnceCommit
    \/ RunOnceReturn
    \/ MainCheck
    \/ MainWake
    \/ Finish
    \/ Tick
    \/ Crash
    \/ Restart
    \/ \E p \in Paths : WatcherScanFile(p)
    \/ WatcherAppend
    \/ WatcherScanComplete
    \/ \E p \in Paths : WatcherEvent(p)
    \/ \E p \in Paths : Touch(p)

SpecRuns == InitRuns /\ [][NextRuns]_vars

\* The ledger alone, under any configured limit: no PDF is in the watch
\* directory, callers reserve 1..MaxReserve calls at a time.
InitLedger ==
    /\ InitEngine(<<>>, TRUE, {[p \in Paths |-> NoCitekey]}, {"once"}, {FALSE})
    /\ llm = LLMOff
    /\ daily_limit \in -1..MaxLimit
    /\ llm_usage = Zero(Days)
    /\ today = 0
    /\ lh = LHInit

NextLedger ==
    \/ \E n \in 1..MaxReserve : TryReserve(n)
    \/ NextDay

SpecLedger == InitLedger /\ [][NextLedger]_vars

\* One process over one PDF, in either scan mode, that may be interrupted,
\* asked to stop, or hit by an exception at any point of the loop.
InitExit == InitWith([p \in {"a.pdf"} |-> FreshStat], FALSE, ZoteroLibraries,
                     Modes, {FALSE})

NextExit ==
    \/ MainSeedTake
    \/ MainSeedEnqueue
    \/ MainSeedComplete
    \/ RunOnceGetDue
    \/ RunOnceAttempt
    \/ RunOnceCommit
    \/ RunOnceReturn
    \/ MainCheck
    \/ MainWake
    \/ Interrupt
    \/ StopRequested
    \/ Raise
    \/ Finish
    \/ Tick
    \/ \E p \in Paths : WatcherScanFile(p)
    \/ WatcherAppend
    \/ WatcherScanComplete

SpecExit == InitExit /\ [][NextExit]_vars

\* The file-state table alone, on an empty database: writes and reads of
\* any path that succeed or fail at any point.
InitStore ==
    /\ InitEngine(<<>>, TRUE, {[p \in Paths |-> NoCitekey]}, {"once"}, {FALSE})
    /\ LedgerIdle

NextStore ==
    \/ \E p \in Paths, stat \in Stats, fault \in Faults :
         StoreUpsertFileState(p, stat, fault)
    \/ \E p \in Paths, fault \in Faults \ {"commit"} :
         StoreGetFileState(p, fault)

SpecStore == InitStore /\ [][NextStore]_vars

\* The LLM client alone: its two methods called with any context, over any
\* content of the watch directory, whatever the provider does.
InitClient ==
    /\ \E D \in SUBSET Paths :
          InitEngine([p \in D |-> FreshStat], TRUE, {[p \in Paths |-> NoCitekey]},
                     {"once"}, {FALSE})
    /\ LedgerIdle

NextClient ==
    \/ \E p \in Paths \cup {NoPath}, mode \in SummaryModes, r \in Completions :
         ClientGenerateSummary(p, mode, r)
    \/ \E p \in Paths \cup {NoPath}, r \in Completions :
         ClientGenerateTags(p, r)

SpecClient == InitClient /\ [][NextClient]_vars

\* The boot seed of a watch process over two PDFs that are in no library,
\* with the main loop's test-and-set of boot_seed_complete interleaved with
\* the watcher thread statement by statement.
InitSeed == InitWith([p \in Paths |-> FreshStat], FALSE,
                     {[p \in Paths |-> NoCitekey]}, {"watch"}, {FALSE})

NextSeed ==
    \/ MainSeedTake
    \/ MainSeedEnqueue
    \/ MainSeedCheck
    \/ MainSeedSet
    \/ RunOnceGetDue
    \/ RunOnceAttempt
    \/ RunOnceCommit
    \/ RunOnceReturn
    \/ MainCheck
    \/ MainWake
    \/ Tick
    \/ \E p \in Paths : WatcherScanFile(p)
    \/ WatcherAppend
    \/ WatcherScanComplete
    \/ \E p \in Paths : WatcherEvent(p)
    \/ \E p \in Paths : Touch(p)

SpecSeed == InitSeed /\ [][NextSeed]_vars

\* The pending queue alone, on an empty table: its operations in any order,
\* on any path, at any time.
InitQueue ==
    /\ InitEngine(<<>>, TRUE, {[p \in Paths |-> NoCitekey]}, {"once"}, {FALSE})
    /\ LedgerIdle

NextQueue ==
    \/ \E p \in Paths : QueueEnqueue(p)
    \/ \E p \in Paths, delay \in 1..max_delay_seconds :
         QueueUpdateAttempt(p, delay)
    \/ \E p \in Paths : QueueResolve(p)
    \/ \E limit \in 0..MaxGetDueLimit : QueueGetDue(limit)
    \/ QueueTick

SpecQueue == InitQueue /\ [][NextQueue]_vars

\* A --once run on a fresh database with an LLM client configured, a daily
\* limit of 0 (ledger disabled) to MaxLimit, one or two catalogued PDFs.
LLMOn == {[client |-> TRUE, summary_enabled |-> TRUE, tag_enabled |-> TRUE,
           gated |-> g] : g \in BOOLEAN}

Catalogued == [p \in Paths |-> IF p = "a.pdf" THEN "smith2020" ELSE "jones2019"]

InitLLM ==
    /\ \E D \in {{"a.pdf"}, Paths} :
          InitEngine([p \in D |-> FreshStat], FALSE, {Catalogued}, {"once"},
                     {FALSE})
    /\ llm \in LLMOn
    /\ daily_limit \in 0..MaxLimit
    /\ llm_usage = Zero(Days)
    /\ today = 0
    /\ lh = LHInit

NextLLM ==
    \/ MainSeedTake
    \/ MainSeedEnqueue
    \/ MainSeedComplete
    \/ RunOnceGetDue
    \/ RunOnceAttempt
    \/ RunOnceCommit
    \/ RunOnceReturn
    \/ MainCheck
    \/ MainWake
    \/ Finish
    \/ Tick
    \/ \E p \in Paths : WatcherScanFile(p)
    \/ WatcherAppend
    \/ WatcherScanComplete

SpecLLM == InitLLM /\ [][NextLLM]_vars

\* A --once run on a fresh database with an LLM client and no daily limit,
\* over two PDFs that are attachments of one paper.
OnePaper == [p \in Paths |-> "smith2020"]

InitDrift ==
    /\ InitEngine([p \in Paths |-> FreshStat], FALSE, {OnePaper}, {"once"},
                  {FALSE})
    /\ llm = [client |-> TRUE, summary_enabled |-> TRUE, tag_enabled |-> TRUE,
              gated |-> FALSE]
    /\ daily_limit = 0
    /\ llm_usage = Zero(Days)
    /\ today = 0
    /\ lh = LHInit

SpecDrift == InitDrift /\ [][NextLLM]_vars

\* zotomatic scan with any combination of --once, --watch, --path and
\* --force; a run in --path mode is followed to its end.
InitPath ==
    /\ \E D \in {{"a.pdf"}, Paths} :
          InitEngine([p \in D |-> FreshStat], FALSE, ZoteroLibraries, {"none"},
                     {FALSE})
    /\ LedgerIdle

NextPath ==
    \/ ParseOptions
    \/ PathValidate
    \/ PathProcess
    \/ PathFinish

SpecPath == InitPath /\ [][NextPath]_vars

\* The [llm] section of the settings: the provider named, if any, and
\* whether that provider has an api_key.
LLMSettings == [provider : {"", "openai", "gemini", "other"}, api_key : BOOLEAN]

\* create_llm_client: the client's provider, or the configuration error
\* LLMClientConfig.from_settings raises.
CreateLLMClient(st) ==
    IF st.provider = "" THEN "config_error"
    ELSE IF st.provider \notin {"openai", "gemini"} THEN "config_error"
    ELSE IF ~st.api_key THEN "config_error"
    ELSE st.provider

\* run_scan: except ZotomaticLLMConfigError: llm_client = None
HasLLMClient(st) == CreateLLMClient(st) # "config_error"

\* The note workflow called path by path: zotomatic scan --path with one or
\* two PDFs of the watch directory (the same one twice included), with or
\* without an LLM client, with or without the quota gate, under any limit.
InitWorkflow ==
    /\ InitEngine([p \in Paths |-> FreshStat], FALSE, ZoteroLibraries, {"none"},
                  {FALSE})
    /\ ~h.opts.once /\ ~h.opts.watch /\ ~h.opts.force
    /\ h.opts.path # <<>>
    /\ \A i \in 1..Len(h.opts.path) : h.opts.path[i] \in Paths
    /\ llm \in {[client |-> HasLLMClient(st), summary_enabled |-> TRUE,
                  tag_enabled |-> TRUE, gated |-> g] :
                 st \in LLMSettings, g \in BOOLEAN}
    /\ daily_limit \in 0..MaxLimit
    /\ llm_usage = Zero(Days)
    /\ today = 0
    /\ lh = LHInit

SpecWorkflow == InitWorkflow /\ [][NextPath]_vars

\* The note workflow called path by path, as above, in a process whose
\* reads of the usage ledger can fail like any operation on the state
\* database.
NextNotify ==
    \/ ParseOptions
    \/ PathValidate
    \/ PathProcessNotify
    \/ PathFinish

SpecNotify == InitWorkflow /\ [][NextNotify]_vars

\* The notes a vault can hold before a run: none, or the note of smith2020
\* for a.pdf, written by earlier runs with its two statuses at any stage.
Statuses == {"pending", "done"}

ExistingNotes ==
    {<<>>} \cup
    {[c \in {"smith2020"} |->
        [pdf_local |-> "a.pdf", summary_status |-> ss, tag_status |-> ts]] :
     ss \in Statuses, ts \in Statuses}

\* zotomatic scan --path on one or two PDFs, after the options are parsed
\* and the paths validated, over a vault that may hold a note already, with
\* any settings of the LLM features (client or none, summary and tags
\* enabled or not); the two PDFs are attachments of one paper or of two.
InitStatus ==
    /\ now = 0
    /\ disk = [p \in Paths |-> FreshStat]
    /\ files = <<>>
    /\ pending = {}
    /\ meta_boot_seed_complete = FALSE
    /\ notes \in ExistingNotes
    /\ zotero \in {Catalogued, OnePaper}
    /\ scan_mode = "path"
    /\ scan_force = FALSE
    /\ pc = "path"
    /\ exit_reason = "none"
    /\ scan_paths \in {ps \in PathArgLists :
                          \A i \in 1..Len(ps) : ps[i] \in Paths}
    /\ seed_batch = <<>>
    /\ due_entries = <<>>
    /\ outcome = "none"
    /\ processed = 0
    /\ wake_at = 0
    /\ pending_seed_buffer = <<>>
    /\ runtime_seed_complete = FALSE
    /\ boot_seed_complete = FALSE
    /\ stop_event = FALSE
    /\ citekey_index = BuildCitekeyIndex(notes)
    /\ counters = [created |-> 0, updated |-> 0, skipped |-> 0, errors |-> 0]
    /\ error_paths = <<>>
    /\ dropped_count = 0
    /\ dropped_paths = <<>>
    /\ summary = NoSummary
    /\ wpc = "none"
    /\ scan_todo = {}
    /\ wpath = NoPath
    /\ events = {}
    /\ skipped_by_state = 0
    /\ released = FALSE
    /\ runs = 1
    /\ fails = Zero(Paths)
    /\ h = [HInit EXCEPT !.opts = [NoOpts EXCEPT !.path = scan_paths]]
    /\ llm \in [client : BOOLEAN, summary_enabled : BOOLEAN,
                 tag_enabled : BOOLEAN, gated : {FALSE}]
    /\ daily_limit = 0
    /\ llm_usage = Zero(Days)
    /\ today = 0
    /\ lh = LHInit

NextStatus ==
    \/ PathProcess
    \/ PathFinish

SpecStatus == InitStatus /\ [][NextStatus]_vars

\* A resident process over one catalogued PDF that is rewritten while the
\* process runs: the boot seed is complete, so the watcher thread enqueues
\* what it reports directly, at any point of the main thread's tick.
InitResident ==
    InitWith([p \in {"a.pdf"} |-> FreshStat], TRUE, {OnePaper}, {"watch"},
             {FALSE})

NextResident ==
    \/ MainSeedTake
    \/ RunOnceGetDue
    \/ RunOnceAttempt
    \/ RunOnceCommit
    \/ RunOnceReturn
    \/ MainCheck
    \/ MainWake
    \/ Tick
    \/ \E p \in Paths : WatcherScanFile(p)
    \/ WatcherScanComplete
    \/ \E p \in Paths : WatcherEvent(p)
    \/ \E p \in Paths : Touch(p)

SpecResident == InitResident /\ [][NextResident]_vars

\* generate_tags alone, on whatever the provider answers, for a PDF that
\* exists or does not, under any tag limit of the settings.
InitTags ==
    /\ InitEngine([p \in {"a.pdf"} |-> FreshStat], TRUE,
                  {[p \in Paths |-> NoCitekey]}, {"once"}, {FALSE})
    /\ LedgerIdle

NextTags ==
    \E limit \in 1..MaxTagLimit, p \in Paths, items \in TagCompletions :
       ClientTagsFrom(limit, p, items)

SpecTags == InitTags /\ [][NextTags]_vars

(* --------------------------- the final summary ------------------------ *)

\* The PDFs of a large library, by number.
ManyPaths == 1..MaxListed

\* list_all(limit): what the query can return, in whatever order: limit rows
\* of the table, or all of them when there are fewer.
ListAll(q, limit) ==
    {S \in SUBSET Queued(q) : Cardinality(S) = Min(limit, Cardinality(q))}

\* The "... N more" line of a section: whether it is printed, and N.
NoMore == [shown |-> FALSE, n |-> 0]

\* if pending_count > len(pending_paths): ... {pending_count - len(...)} more
\* (and the same for dropped_count and dropped_paths).
MoreThanListed(count, listed) ==
    IF count > listed THEN [shown |-> TRUE, n |-> count - listed] ELSE NoMore

\* A test that prints the line for a full section with nothing left out.
ErrorsMoreAtLimit(paths) ==
    IF Len(paths) >= SummaryListLimit
    THEN [shown |-> TRUE, n |-> Len(paths) - SummaryListLimit] ELSE NoMore

\* if len(error_paths) > 10: ... {len(error_paths) - 10} more
ErrorsMore(paths) ==
    IF Len(paths) > SummaryListLimit
    THEN [shown |-> TRUE, n |-> Len(paths) - SummaryListLimit] ELSE NoMore

\* The summary line and the three sections as run_scan prints them after
\* the loop, listed being what list_all returned.
SummaryPrinted(listed) ==
    LET dropped_listed == Take(dropped_paths, SummaryListLimit)
    IN  [printed |-> TRUE,
         created |-> counters.created,
         updated |-> counters.updated,
         skipped |-> counters.skipped,
         pending |-> Cardinality(pending),
         dropped |-> dropped_count,
         errors |-> counters.errors,
         pending_section |->
            [shown |-> listed # {}, listed |-> listed,
             more |-> IF listed # {}
                      THEN MoreThanListed(Cardinality(pending),
                                          Cardinality(listed))
                      ELSE NoMore],
         dropped_section |->
            [shown |-> dropped_listed # <<>>, listed |-> dropped_listed,
             more |-> IF dropped_listed # <<>>
                      THEN MoreThanListed(dropped_count, Len(dropped_listed))
                      ELSE NoMore],
         errors_section |->
            [shown |-> error_paths # <<>>,
             listed |-> Take(error_paths, SummaryListLimit),
             more |-> IF error_paths # <<>> THEN ErrorsMore(error_paths)
                      ELSE NoMore]]

\* run_scan after the loop: count_all, dropped_count, list_all, and the
\* printing of the summary.
PrintSummary ==
    /\ pc = "exited"
    /\ exit_reason # "error"
    /\ \E listed \in ListAll(pending, SummaryListLimit) :
          summary' = SummaryPrinted(listed)
    /\ pc' = "done"
    /\ UNCHANGED <<now, durable, runv, exit_reason, seed_batch, due_entries,
                   outcome, processed, wake_at, pending_seed_buffer,
                   runtime_seed_complete, boot_seed_complete, stop_event,
                   flowv, dropv, watchv, llmv, histv>>

\* A process that has left its loop after a long run over a large library:
\* any number of rows in the pending table, of dropped paths and of failed
\* paths, the counts being those of the lists.
InitSummary ==
    /\ now = 0
    /\ disk = <<>>
    /\ files = <<>>
    /\ \E n \in 0..MaxListed : pending = {NewEntry(p, 0) : p \in 1..n}
    /\ meta_boot_seed_complete = TRUE
    /\ notes = <<>>
    /\ zotero = [p \in Paths |-> NoCitekey]
    /\ scan_mode \in Modes
    /\ scan_force = FALSE
    /\ pc = "exited"
    /\ exit_reason = IF scan_mode = "once" THEN "completed" ELSE "stopped"
    /\ scan_paths = <<>>
    /\ seed_batch = <<>>
    /\ due_entries = <<>>
    /\ outcome = "none"
    /\ processed = 0
    /\ wake_at = 0
    /\ pending_seed_buffer = <<>>
    /\ runtime_seed_complete = TRUE
    /\ boot_seed_complete = TRUE
    /\ stop_event = (scan_mode = "watch")
    /\ citekey_index = BuildCitekeyIndex(<<>>)
    /\ \E k \in 0..MaxListed :
          /\ error_paths = [i \in 1..k |-> i]
          /\ counters = [created |-> 0, updated |-> 0, skipped |-> 0,
                         errors |-> k]
    /\ \E m \in 0..MaxListed :
          /\ dropped_paths = [i \in 1..m |-> i]
          /\ dropped_count = m
    /\ summary = NoSummary
    /\ wpc = "stopped"
    /\ scan_todo = {}
    /\ wpath = NoPath
    /\ events = {}
    /\ skipped_by_state = 0
    /\ released = TRUE
    /\ runs = 1
    /\ fails = Zero(Paths)
    /\ h = HInit
    /\ LedgerIdle

NextSummary == PrintSummary

SpecSummary == InitSummary /\ [][NextSummary]_vars

(* ------------------------------ properties ---------------------------- *)

C3_OnceExitsDrained ==
    (scan_mode = "once" /\ exit_reason = "completed")
    => /\ runtime_seed_complete
       /\ pending_seed_buffer = <<>>
       /\ Queued(pending) = {}

\* C4 (scenario S2): a --once run over a directory holding b.pdf, which the
\* library does not catalogue, ends with b.pdf out of the pending queue,
\* counted in the summary's dropped and listed under Dropped.
C4_UnresolvedIsDropped ==
    (/\ scan_mode = "once"
     /\ pc = "done"
     /\ exit_reason = "completed"
     /\ zotero["b.pdf"] = NoCitekey
     /\ h.sdeliv["b.pdf"] > 0)
    => /\ "b.pdf" \notin Queued(pending)
       /\ summary.dropped >= 1
       /\ "b.pdf" \in SeqToSet(summary.dropped_listed)

\* C5 (at-least-once across crashes): a path the watcher recorded in the
\* files table and delivered is never lost: when a run with force off has
\* completed, every such path whose note workflow has not run since (and
\* that was not dropped) still has its entry in the pending queue.
C5_DeliveredPathsSurvive ==
    (pc = "done" /\ exit_reason = "completed" /\ ~scan_force)
    => \A p \in h.owed : p \in Queued(pending)

\* C6 (dedup idempotence): for a path whose (mtime_ns, size) has not changed,
\* the initial scans made with force off deliver it exactly once in total
\* (counting a delivery by a filesystem event): the other scans find the
\* matching row and count the path in skipped_by_state.
C6_DedupIdempotence ==
    \A p \in Paths :
       (p \notin h.forced /\ h.scans[p] >= 1)
       => /\ h.sdeliv[p] + h.edeliv[p] = 1
          /\ h.skips[p] = h.scans[p] - h.sdeliv[p]
          /\ p \in DOMAIN files
          /\ p \in DOMAIN disk => files[p] = disk[p]

\* Two scans with force off have visited an unchanged file: the first
\* delivered it, the second skipped it.
C6_SecondScanSkipped ==
    \E p \in Paths :
       /\ p \notin h.forced
       /\ h.scans[p] = 2
       /\ h.sdeliv[p] = 1
       /\ h.skips[p] = 1
       /\ skipped_by_state = 1
       /\ runs = 2

\* C7 (force re-delivery): in a run with force on, the initial scan delivers
\* every PDF it visits exactly once, and when the scan has completed every
\* PDF of the directory has been delivered once by it, whatever the files
\* table held.
C7_ForceRedelivers ==
    scan_force
    => /\ \A p \in Paths : h.this_scan[p] = (IF p \in h.visited THEN 1 ELSE 0)
       /\ h.visited \subseteq DOMAIN disk
       /\ wpc = "events" => h.visited = DOMAIN disk

\* A forced scan has delivered a file that an earlier scan had recorded and
\* that has not changed since.
C7_ForcedOverMatchingRow ==
    \E p \in Paths :
       /\ scan_force
       /\ runs = 2
       /\ h.scans[p] = 2
       /\ h.this_scan[p] = 1
       /\ files[p] = disk[p]

\* C8 (citekey uniqueness): the citekey index maps a citekey to at most one
\* note path, that of the note on disk, and within a run a note is created
\* at most once per citekey: once it exists, a later invocation with that
\* citekey is an update or a skip.
C8_CitekeyUnique ==
    \A c \in Citekeys :
       /\ h.created[c] <= 1
       /\ citekey_index[c] \in {NoPath, NotePath(c)}
       /\ (citekey_index[c] # NoPath) => c \in DOMAIN notes
       /\ h.created[c] = 1 => citekey_index[c] = NotePath(c)

\* A second PDF with the citekey of a note created in this run went through
\* the workflow and was counted as updated or skipped.
C8_SecondInvocation ==
    \E c \in Citekeys :
       /\ h.created[c] = 1
       /\ c \in h.later
       /\ counters.updated + counters.skipped >= 1

\* C9 (quota cap): with daily_limit = L > 0, on every day the stored counter
\* is at most L and at most L reservations have returned true.
C9_QuotaCap ==
    daily_limit > 0
    => \A d \in Days : llm_usage[d] <= daily_limit /\ lh.ok[d] <= daily_limit

\* The limit is reached and a further reservation was refused.
C9_LimitReached ==
    /\ daily_limit > 0
    /\ llm_usage[today] = daily_limit
    /\ lh.ok[today] >= 1
    /\ lh.calls[today] > lh.ok[today]
    /\ ~lh.result

\* C10 (try_reserve, ledger enabled): with daily_limit > 0, try_reserve(n)
\* adds exactly n to today's counter and returns true when
\* current + n <= limit; otherwise it returns false and changes no counter.
\* With daily_limit <= 0 every reservation returns true.
C10_TryReserveEnabled ==
    [][lh'.calls[today] = lh.calls[today] + 1
       => LET n == lh'.n
              current == llm_usage[today]
          IN IF daily_limit <= 0 THEN lh'.result
             ELSE IF current + n <= daily_limit
             THEN /\ lh'.result
                  /\ llm_usage' = [llm_usage EXCEPT ![today] = current + n]
             ELSE /\ ~lh'.result
                  /\ llm_usage' = llm_usage]_vars

\* A reservation was refused below the limit because it asked for more
\* than what was left, after one had been granted.
C10_RefusedBelowLimit ==
    /\ daily_limit > 0
    /\ lh.ok[today] >= 1
    /\ ~lh.result
    /\ lh.n > 1
    /\ llm_usage[today] < daily_limit
    /\ llm_usage[today] + lh.n > daily_limit

\* C10 as stated, for any limit: try_reserve(n) adds n and returns true when
\* current + n <= limit; otherwise it returns false and changes no counter.
C10_TryReserveAnyLimit ==
    [][lh'.calls[today] = lh.calls[today] + 1
       => LET n == lh'.n
              current == llm_usage[today]
          IN IF current + n <= daily_limit
             THEN /\ lh'.result
                  /\ llm_usage' = [llm_usage EXCEPT ![today] = current + n]
             ELSE /\ ~lh'.result
                  /\ llm_usage' = llm_usage]_vars

\* C11 (scenario S5): with an LLM client that answers every call and
\* daily_limit = 1, the first note created in the run has summary and tag
\* status done and every note created after it has both statuses pending.
C11_QuotaExhaustedMidRun ==
    (daily_limit = 1 /\ llm.client /\ ~h.llm_failed)
    => \A i \in 1..Len(h.order) :
          /\ h.order[i].summary_status = (IF i = 1 THEN "done" ELSE "pending")
          /\ h.order[i].tag_status = (IF i = 1 THEN "done" ELSE "pending")

\* C12 (scenario S1): a --once run over the single fresh PDF a.pdf, resolved
\* to smith2020 at the first attempt, with an LLM that answers every call
\* and no reservation refused, ends with exactly one note, that of
\* smith2020, with summary and tag status done, and with the summary
\* created=1, updated=0, skipped=0, pending=0, dropped=0, errors=0.
C12_HappyPath ==
    (/\ pc = "done"
     /\ exit_reason = "completed"
     /\ DOMAIN disk = {"a.pdf"}
     /\ fails["a.pdf"] = 0
     /\ counters.errors = 0
     /\ ~h.skeleton
     /\ ~h.llm_failed
     /\ lh.ok = lh.calls)
    => /\ DOMAIN notes = {"smith2020"}
       /\ notes["smith2020"].summary_status = "done"
       /\ notes["smith2020"].tag_status = "done"
       /\ notes["smith2020"].pdf_local = "a.pdf"
       /\ citekey_index["smith2020"] = NotePath("smith2020")
       /\ summary = [printed |-> TRUE, created |-> 1, updated |-> 0,
                     skipped |-> 0, pending |-> 0, dropped |-> 0,
                     errors |-> 0, dropped_listed |-> <<>>]

\* The happy path has run to its end under an enabled ledger.
C12_HappyPathDone ==
    /\ pc = "done"
    /\ exit_reason = "completed"
    /\ DOMAIN disk = {"a.pdf"}
    /\ fails["a.pdf"] = 0
    /\ ~h.skeleton
    /\ ~h.llm_failed
    /\ llm.gated
    /\ daily_limit = MaxLimit
    /\ lh.ok[today] = 2
    /\ lh.calls[today] = 2
    /\ summary.created = 1

\* C13: when some path given to --path is not an existing regular file, the
\* run ends with exit code 1 and has done no work: no note workflow has run
\* for any path, no note is written, and the state database has no row.
C13_PathValidation ==
    (scan_mode = "path"
       /\ \E i \in 1..Len(h.opts.path) : h.opts.path[i] \notin DOMAIN disk)
    => /\ pc \in {"validate", "done"}
       /\ pc = "done" => ExitCode = 1 /\ ~summary.printed
       /\ counters = [created |-> 0, updated |-> 0, skipped |-> 0, errors |-> 0]
       /\ h.order = <<>>
       /\ notes = <<>>
       /\ files = <<>>
       /\ pending = {}
       /\ ~meta_boot_seed_complete

\* A run rejected for its second path although the first one is a PDF.
C13_RejectedAfterValidPath ==
    /\ pc = "done"
    /\ ExitCode = 1
    /\ scan_mode = "path"
    /\ Len(h.opts.path) = 2
    /\ h.opts.path[1] \in DOMAIN disk
    /\ h.opts.path[2] \notin DOMAIN disk

OneRowPerPath(q) == \A a, b \in q : a.file_path = b.file_path => a = b

\* C15: after any sequence of queue operations the pending table has at most
\* one row per path, and enqueue(p) for a path that has a row leaves the
\* table, hence that row's attempt_count, next_attempt_at, last_error and
\* enqueued_at, as it was.
C15_EnqueueIdempotent ==
    [][/\ OneRowPerPath(pending')
       /\ (h'.op.name = "enqueue" /\ h'.op.path \in Queued(pending))
            => /\ pending' = pending
               /\ Row(pending', h'.op.path) = Row(pending, h'.op.path)]_vars

\* enqueue was called at a later time for a path whose row records a failed
\* attempt.
C15_EnqueuedAgain ==
    /\ h.op.name = "enqueue"
    /\ h.op.path \in Queued(pending)
    /\ Row(pending, h.op.path).attempt_count > 0
    /\ Row(pending, h.op.path).enqueued_at < now

\* C16: what get_due(limit) returned holds only rows that are due, at most
\* limit of them and as many as that allows, in ascending order of
\* next_attempt_at and, for equal next_attempt_at, of enqueued_at; a due row
\* left out by the limit comes after every returned one in that order.
C16_GetDueOrder ==
    h.op.name = "get_due" =>
      LET d == due_entries
          due == {e \in pending : e.next_attempt_at <= now}
          got == {Row(pending, d[i].file_path) : i \in 1..Len(d)}
          Earlier(a, b) ==
              \/ a.next_attempt_at < b.next_attempt_at
              \/ /\ a.next_attempt_at = b.next_attempt_at
                 /\ a.enqueued_at < b.enqueued_at
      IN  /\ \A i \in 1..Len(d) :
                /\ d[i].file_path \in Queued(pending)
                /\ Row(pending, d[i].file_path) \in due
                /\ d[i].attempt_count = Row(pending, d[i].file_path).attempt_count
          /\ Len(d) = Min(h.op.limit, Cardinality(due))
          /\ \A i, j \in 1..Len(d) :
                i < j => /\ d[i].file_path # d[j].file_path
                         /\ ~Earlier(Row(pending, d[j].file_path),
                                     Row(pending, d[i].file_path))
          /\ \A e \in due \ got : \A g \in got : ~Earlier(e, g)

\* get_due(1) had two due rows with one deadline to choose from and returned
\* the one enqueued earlier.
C16_TieByEnqueuedAt ==
    /\ h.op.name = "get_due"
    /\ h.op.limit = 1
    /\ Len(due_entries) = 1
    /\ \E a, b \in pending :
         /\ a.next_attempt_at = b.next_attempt_at
         /\ a.next_attempt_at <= now
         /\ a.enqueued_at < b.enqueued_at
         /\ due_entries[1].file_path = a.file_path

\* C17: once run_scan has left the scan loop and its with block, whether by
\* scan-once completion, the stop signal, KeyboardInterrupt or another
\* exception, the filesystem subscription is released and the watcher
\* delivers nothing more.
C17_WatcherReleased ==
    pc = "done" =>
       /\ exit_reason \in {"completed", "stopped", "interrupted", "error"}
       /\ released
       /\ wpc = "stopped"
       /\ wpath = NoPath

\* The loop was left by an exception while the initial scan was running.
C17_ReleasedOnException ==
    /\ pc = "done"
    /\ exit_reason = "error"
    /\ released
    /\ scan_todo # {}
    /\ ~summary.printed

\* C18: when the chat-completion request of generate_summary or of
\* generate_tags raises a provider error, the method returns an empty result
\* and the error does not reach the caller.
C18_ProviderErrorsCaught ==
    (h.llm_call.method \in {"generate_summary", "generate_tags"}
       /\ h.llm_call.completion = "raise")
    => h.llm_call.result = "empty"

\* C19: a state-store operation that fails raises a storage error to its
\* caller and leaves the stored table exactly as it was before the
\* operation; an operation that raises nothing has taken effect.
C19_FailedOperationRollsBack ==
    [][h'.op.name = "upsert_file_state" =>
         /\ h'.op.raised <=> h'.op.fault # "none"
         /\ h'.op.raised => files' = files
         /\ ~h'.op.raised => Get(files', h'.op.path) = h'.op.stat]_vars

\* An overwrite of an existing row failed at commit, after its statement
\* had been executed.
C19_CommitFailedOnOverwrite ==
    /\ h.op.name = "upsert_file_state"
    /\ h.op.raised
    /\ h.op.fault = "commit"
    /\ h.op.path \in DOMAIN files
    /\ files[h.op.path] # h.op.stat

\* C20: in a tick of run_once, on_resolved runs for a due entry only when its
\* file exists and the resolver returned a record; the entry is removed as
\* resolved and counted as processed only when on_resolved also returned
\* without raising; in every other case (file missing, resolver raised,
\* resolver returned nothing, callback raised) it is not counted and is
\* either backed off, with one more attempt and a later deadline, or dropped.
C20_RunOnceOutcomes ==
    [][LET e == Head(due_entries)
           p == e.file_path
           invoked == counters' # counters
       IN  /\ (pc = "entry" /\ pc' = "commit") =>
                /\ invoked => p \in DOMAIN disk /\ zotero[p] # NoCitekey
                /\ ~invoked => notes' = notes /\ citekey_index' = citekey_index
                /\ outcome' = "ok" <=>
                       invoked /\ counters'.errors = counters.errors
                /\ p \notin DOMAIN disk => outcome' = "PDF not found"
                /\ outcome' \in {"PDF not found", "Zotero unresolved"}
                       => ~invoked
           /\ (pc = "commit" /\ pc' = "entry") =>
                IF outcome = "ok"
                THEN /\ p \notin Queued(pending')
                     /\ processed' = processed + 1
                     /\ dropped_count' = dropped_count
                ELSE /\ processed' = processed
                     /\ \/ /\ p \in Queued(pending')
                           /\ Row(pending', p).attempt_count
                                = e.attempt_count + 1
                           /\ Row(pending', p).next_attempt_at > now
                           /\ Row(pending', p).last_error = outcome
                           /\ dropped_count' = dropped_count
                        \/ /\ p \notin Queued(pending')
                           /\ dropped_count' = dropped_count + 1]_vars

\* on_resolved raised for an entry, which was backed off: its row records
\* the failed attempt and nothing was counted as processed.
C20_CallbackRaisedBackedOff ==
    \E p \in Queued(pending) :
       /\ pc = "entry"
       /\ due_entries = <<>>
       /\ counters.errors = 1
       /\ error_paths = <<p>>
       /\ Row(pending, p).attempt_count = 1
       /\ Row(pending, p).last_error = "error"
       /\ processed = 0

\* C21: once boot_seed_complete is set the seed buffer is empty and stays
\* empty: no path the watcher reports ends up in it.
C21_NoPathStranded ==
    boot_seed_complete => pending_seed_buffer = <<>>

\* C22: a tick of the main loop takes at most batch_limit paths off the
\* seed buffer for the pending queue, and the step that sets
\* boot_seed_complete is taken in a state where the initial scan has
\* signalled its completion and the seed buffer is empty.
C22_SeedDrain ==
    [][/\ Len(seed_batch') <= batch_limit
       /\ (~boot_seed_complete /\ boot_seed_complete')
            => runtime_seed_complete /\ pending_seed_buffer = <<>>]_vars

\* C23: at every instant of a running process, a path the watcher has
\* delivered and that has not been processed or dropped since is in the seed
\* buffer or has its row in the pending queue: it leaves the buffer only
\* once the row is written.
C23_PersistedBeforeDiscard ==
    Running =>
       \A p \in h.owed \ {wpath} :
          p \in SeqToSet(pending_seed_buffer) \/ p \in Queued(pending)

\* C24: an invocation on an existing note is counted as updated only if it
\* changed the note's pdf_local, summary status or tag status; a resume whose
\* regeneration left both statuses as they were is not counted as updated.
C24_UpdatedOnlyIfChanged ==
    [][counters'.updated = counters.updated + 1
         => \E c \in DOMAIN notes : notes'[c] # notes[c]]_vars

\* C25: when _process_pdf runs on a PDF whose paper has a note with another
\* pdf_local, it rewrites pdf_local to the PDF's path, counts updated, and
\* leaves the note's summary status and tag status as they were; no
\* regeneration is attempted in that invocation.
C25_PathDrift ==
    [][LET p == Head(due_entries).file_path
           c == zotero[p]
       IN  (/\ pc = "entry" /\ pc' = "commit"
            /\ c \in DOMAIN notes
            /\ notes[c].pdf_local # p
            /\ counters' # counters
            /\ counters'.errors = counters.errors
            /\ counters'.created = counters.created)
           => /\ notes' = [notes EXCEPT ![c].pdf_local = p]
              /\ notes'[c].summary_status = notes[c].summary_status
              /\ notes'[c].tag_status = notes[c].tag_status
              /\ counters'.updated = counters.updated + 1
              /\ counters'.skipped = counters.skipped
              /\ h'.llm_failed = h.llm_failed]_vars

\* The note of a paper was created with both statuses pending and then had
\* its pdf_local rewritten for the paper's other PDF.
C25_DriftedWhilePending ==
    /\ "smith2020" \in DOMAIN notes
    /\ counters.created = 1
    /\ counters.updated = 1
    /\ notes["smith2020"].summary_status = "pending"
    /\ notes["smith2020"].tag_status = "pending"
    /\ h.order # <<>>
    /\ notes["smith2020"].pdf_local # "a.pdf"
    /\ zotero["a.pdf"] = "smith2020"
    /\ llm.client

\* C26: when the LLM client raises during the summary or the tag generation
\* of a _process_pdf call whose note can be written, the call does not
\* raise, the note is written, and the status of the generation that failed
\* is pending.
C26_LLMErrorCaught ==
    LET wf == h.wf
        c == zotero[wf.path]
    IN  (/\ wf.path # NoPath
         /\ wf.r # "raise"
         /\ wf.w
         /\ \/ wf.summary_called /\ wf.rs = "raise"
            \/ wf.tags_called /\ wf.rt = "raise")
        => /\ wf.result \in {"created", "updated"}
           /\ wf.r = "paper" =>
                /\ c \in DOMAIN notes
                /\ (wf.summary_called /\ wf.rs = "raise")
                      => notes[c].summary_status = "pending"
                /\ (wf.tags_called /\ wf.rt = "raise")
                      => notes[c].tag_status = "pending"

\* A note was created although the summary call raised: its summary is
\* pending and its tags, whose call returned text, are done.
C26_CreatedDespiteError ==
    /\ h.wf.path = "a.pdf"
    /\ h.wf.r = "paper"
    /\ h.wf.summary_called /\ h.wf.rs = "raise"
    /\ h.wf.tags_called /\ h.wf.rt = "text"
    /\ h.wf.result = "created"
    /\ "smith2020" \in DOMAIN notes
    /\ notes["smith2020"].summary_status = "pending"
    /\ notes["smith2020"].tag_status = "done"

\* C27: in a run whose LLM client could not be constructed, the run goes
\* on without a client: no LLM call is made, nothing is reserved in the
\* ledger, and every note the run creates has summary status and tag status
\* pending.
C27_NoClientNoCalls ==
    ~llm.client =>
       /\ ~h.wf.summary_called /\ ~h.wf.tags_called
       /\ llm_usage = Zero(Days)
       /\ lh = LHInit
       /\ ~h.llm_failed
       /\ \A c \in DOMAIN notes :
             /\ notes[c].summary_status = "pending"
             /\ notes[c].tag_status = "pending"
       /\ \A i \in 1..Len(h.order) :
             /\ h.order[i].summary_status = "pending"
             /\ h.order[i].tag_status = "pending"

\* A run without a client, with the quota gate in place and a positive
\* limit, has created two notes and ended.
C27_TwoNotesWithoutClient ==
    /\ ~llm.client
    /\ llm.gated
    /\ daily_limit > 0
    /\ pc = "done"
    /\ exit_reason = "completed"
    /\ DOMAIN notes = Citekeys
    /\ summary.created = 2

C29_SerialPerPath ==
    [][LET p == Head(due_entries).file_path
       IN  /\ \A i, j \in 1..Len(due_entries) :
                 due_entries[i].file_path = due_entries[j].file_path => i = j
           /\ counters' # counters =>
                /\ pc = "entry" /\ pc' = "commit"
                /\ due_entries # <<>> /\ due_entries' = due_entries
                /\ p \in Queued(pending) /\ pending' = pending
                /\ h.sdeliv[p] + h.edeliv[p] > 0
                /\ p \in DOMAIN disk
                /\ zotero[p] # NoCitekey
                /\ wpc' = wpc /\ wpath' = wpath]_vars

\* The workflow has run for a.pdf, created its note and returned; the entry
\* is about to be resolved.
C29_WorkflowReturned ==
    /\ pc = "commit"
    /\ outcome = "ok"
    /\ Head(due_entries).file_path = "a.pdf"
    /\ "a.pdf" \in Queued(pending)
    /\ "smith2020" \in DOMAIN notes
    /\ counters.created = 1

\* C30: in --watch mode the main loop is left only when the stop signal is
\* set or the user interrupts, never because the queue is empty.  Until then
\* each tick is followed by a wait of loop_interval_seconds and the next tick
\* starts when that wait times out.  Once the stop signal is set no further
\* tick starts from a wait: the loop is left at the wait, and time passes
\* only inside that wait and not beyond its interval.
C30_WatchResident ==
    [][(scan_mode = "watch" /\ Running) =>
         /\ pc' = "exited" =>
              \/ exit_reason' = "interrupted"
              \/ exit_reason' = "stopped" /\ stop_event
         /\ (pc = "check" /\ pc' \notin {"check", "exited"}) =>
              /\ pc' = "sleep"
              /\ wake_at' = now + loop_interval_seconds
              /\ ~stop_event
         /\ (pc = "sleep" /\ pc' \notin {"sleep", "exited"}) =>
              /\ pc' = "loop"
              /\ now = wake_at
              /\ ~stop_event
         /\ pc = "sleep" => wake_at <= now + loop_interval_seconds
         /\ (stop_event /\ now' # now) =>
              /\ pc = "sleep"
              /\ now' <= wake_at]_vars

\* A watching process with nothing left to do: the seed is complete, the
\* queue is empty, no stop was requested, and it is in its wait after at
\* least two full intervals.
C30_WaitingOnEmptyQueue ==
    /\ scan_mode = "watch"
    /\ pc = "sleep"
    /\ ~stop_event
    /\ runtime_seed_complete
    /\ boot_seed_complete
    /\ pending_seed_buffer = <<>>
    /\ pending = {}
    /\ DOMAIN notes # {}
    /\ now >= 2 * loop_interval_seconds

\* C31: the summary printed in once / watch mode reports as pending the
\* number of rows in the pending table at exit and as dropped the
\* processor's dropped count.  Each of the sections Pending, Dropped and
\* Errors is printed when it has paths, lists at most SummaryListLimit of
\* them, all of them when there are no more than that, and ends with
\* "... N more" exactly when there are more paths than listed, N being the
\* number left out.
C31_SummarySections ==
    summary.printed =>
       LET ps == summary.pending_section
           ds == summary.dropped_section
           es == summary.errors_section
       IN  /\ summary.pending = Cardinality(pending)
           /\ summary.dropped = dropped_count
           /\ summary.errors = Len(error_paths)
           /\ ps.shown <=> pending # {}
           /\ ps.listed \subseteq Queued(pending)
           /\ Cardinality(ps.listed) = Min(SummaryListLimit, Cardinality(pending))
           /\ ps.more.shown <=> Cardinality(pending) > Cardinality(ps.listed)
           /\ ps.more.shown =>
                 ps.more.n = Cardinality(pending) - Cardinality(ps.listed)
           /\ ds.shown <=> dropped_count > 0
           /\ ds.listed = Take(dropped_paths, SummaryListLimit)
           /\ Len(ds.listed) = Min(SummaryListLimit, dropped_count)
           /\ ds.more.shown <=> dropped_count > Len(ds.listed)
           /\ ds.more.shown => ds.more.n = dropped_count - Len(ds.listed)
           /\ es.shown <=> error_paths # <<>>
           /\ es.listed = Take(error_paths, SummaryListLimit)
           /\ Len(es.listed) = Min(SummaryListLimit, Len(error_paths))
           /\ es.more.shown <=> Len(error_paths) > Len(es.listed)
           /\ es.more.shown => es.more.n = Len(error_paths) - Len(es.listed)

\* A summary over more pending, dropped and failed paths than a section
\* lists: each section lists SummaryListLimit paths and says how many more.
C31_MoreThanListed ==
    /\ summary.printed
    /\ Cardinality(pending) = SummaryListLimit + 1
    /\ dropped_count = SummaryListLimit + 1
    /\ Len(error_paths) = SummaryListLimit
    /\ summary.pending_section.more = [shown |-> TRUE, n |-> 1]
    /\ summary.dropped_section.more = [shown |-> TRUE, n |-> 1]
    /\ summary.errors_section.more = NoMore

\* The number of _process_pdf_safe calls counted so far.
Counted == counters.created + counters.updated + counters.skipped
             + counters.errors

\* C32: in --path mode the note workflow runs once for each path given, in
\* the order given: the paths still to do are the tail of the paths given
\* that follows the calls made, and each call is for the first of them.  A
\* call that raises is counted in errors, with its path on the error list,
\* and the next path is processed all the same.  No step touches the
\* watcher, the files table or the pending queue, and the run ends, all
\* paths done, with a summary that says pending=0 and dropped=0.
C32_PathModeRunsEachPath ==
    [][scan_mode = "path" =>
         /\ pc = "path" =>
               scan_paths = Drop(h.opts.path, Counted)
         /\ <<pending, files, meta_boot_seed_complete, dropv, watchv>>'
               = <<pending, files, meta_boot_seed_complete, dropv, watchv>>
         /\ (pc = "path" /\ scan_paths # <<>>) =>
               /\ pc' = "path"
               /\ Counted' = Counted + 1
               /\ h'.wf.path = Head(scan_paths)
               /\ scan_paths' = Tail(scan_paths)
               /\ IF h'.wf.result = "raised"
                  THEN /\ counters'.errors = counters.errors + 1
                       /\ error_paths' = Append(error_paths, Head(scan_paths))
                  ELSE /\ counters'.errors = counters.errors
                       /\ error_paths' = error_paths
         /\ (pc = "path" /\ pc' = "done") =>
               /\ Counted = Len(h.opts.path)
               /\ exit_reason' = "completed"
               /\ summary'.printed
               /\ summary'.pending = 0
               /\ summary'.dropped = 0
               /\ summary'.errors = counters.errors]_vars

\* --path a.pdf b.pdf: the workflow raised for a.pdf, b.pdf got its note,
\* and the run ended with one error.
C32_SecondPathAfterFailure ==
    /\ scan_mode = "path"
    /\ pc = "done"
    /\ h.opts.path = <<"a.pdf", "b.pdf">>
    /\ error_paths = <<"a.pdf">>
    /\ h.wf.path = "b.pdf"
    /\ h.wf.result = "created"
    /\ summary.printed
    /\ summary.created = 1
    /\ summary.errors = 1

\* The tags of the last generate_tags call are the items of the completion,
\* stripped, without the empty ones, each once, in the order in which they
\* first occur.
TagsCleaned ==
    LET call == h.llm_call
        tags == call.result
        items == call.completion
        first(t) == CHOOSE i \in 1..Len(items) :
                       /\ Strip(items[i]) = t
                       /\ \A j \in 1..(i - 1) : Strip(items[j]) # t
    IN  (call.method = "generate_tags" /\ call.pdf_path \in DOMAIN disk) =>
          /\ SeqToSet(tags) = {Strip(items[i]) : i \in 1..Len(items)} \ {""}
          /\ \A i, j \in 1..Len(tags) : tags[i] = tags[j] => i = j
          /\ \A i, j \in 1..Len(tags) :
                i < j => first(tags[i]) < first(tags[j])

\* C33: generate_tags returns at most the caller's limit of tags, with the
\* empty items dropped and duplicates removed in the order of first
\* occurrence.
C33_TagsWithinLimit ==
    /\ TagsCleaned
    /\ h.llm_call.method = "generate_tags" =>
          Len(h.llm_call.result) <= h.llm_call.limit

\* C34: the attempt_count of a row of the pending queue is never above
\* max_attempts; as long as the row stays in the queue it never goes down,
\* and it changes only at the end of a failed attempt on that row, by
\* exactly one; a failed attempt that would take it above max_attempts
\* removes the row instead.
C34_AttemptCount ==
    [][\A p \in Paths :
         /\ p \in Queued(pending) =>
               Row(pending, p).attempt_count <= max_attempts
         /\ (p \in Queued(pending) /\ p \in Queued(pending')) =>
               /\ Row(pending', p).attempt_count >= Row(pending, p).attempt_count
               /\ Row(pending', p).attempt_count # Row(pending, p).attempt_count =>
                     /\ pc = "commit"
                     /\ outcome # "ok"
                     /\ Head(due_entries).file_path = p
         /\ (/\ pc = "commit" /\ pc' = "entry" /\ outcome # "ok"
             /\ Head(due_entries).file_path = p) =>
               /\ p \in Queued(pending)
               /\ Head(due_entries).attempt_count = Row(pending, p).attempt_count
               /\ IF Row(pending, p).attempt_count + 1 > max_attempts
                  THEN p \notin Queued(pending')
                  ELSE /\ p \in Queued(pending')
                       /\ Row(pending', p).attempt_count
                            = Row(pending, p).attempt_count + 1]_vars

\* An entry at the ceiling: it has failed max_attempts times, one count at
\* each failure, and is still queued.
C34_AtCeiling ==
    \E p \in Queued(pending) :
       /\ Row(pending, p).attempt_count = max_attempts
       /\ fails[p] = max_attempts
       /\ Row(pending, p).last_error # ""

\* C35: a failed entry is not attempted again before the next_attempt_at its
\* failure stored.  A failure that keeps the row stores a next_attempt_at
\* later than the time of the failure; the stored value changes at no other
\* step; every attempt of run_once (file check, resolver, callback) is on a
\* row whose next_attempt_at has been reached; and the due entries of one
\* tick, set when the tick begins and only consumed after that, hold no
\* path twice.
C35_NotBeforeNextAttempt ==
    [][LET p == Head(due_entries).file_path
       IN  /\ base_delay_seconds > 0
           /\ \A i, j \in 1..Len(due_entries) :
                 due_entries[i].file_path = due_entries[j].file_path => i = j
           /\ due_entries' # due_entries =>
                 \/ pc = "tick"
                 \/ due_entries # <<>> /\ due_entries' = Tail(due_entries)
                 \/ due_entries' = <<>>
           /\ (pc = "entry" /\ pc' = "commit") =>
                 /\ p \in Queued(pending)
                 /\ Row(pending, p).next_attempt_at <= now
           /\ (pc = "commit" /\ pc' = "entry" /\ p \in Queued(pending')) =>
                 /\ outcome # "ok"
                 /\ Row(pending', p).next_attempt_at > now
           /\ \A q \in Paths :
                 (/\ q \in Queued(pending) /\ q \in Queued(pending')
                  /\ Row(pending', q).next_attempt_at
                       # Row(pending, q).next_attempt_at) =>
                    /\ pc = "commit" /\ outcome # "ok" /\ q = p]_vars

\* An entry that failed at time 0 is attempted again, for the second time,
\* when its next_attempt_at has come.
C35_RetriedWhenDue ==
    /\ pc = "commit"
    /\ \E p \in Queued(pending) :
          /\ Head(due_entries).file_path = p
          /\ Row(pending, p).attempt_count = 1
          /\ Row(pending, p).next_attempt_at = base_delay_seconds
          /\ now >= Row(pending, p).next_attempt_at
          /\ fails[p] = 1

\* C36: a change to a PDF that the watcher thread reports (by enqueuing the
\* path) after the processor has begun the attempt on the path's pending
\* entry and before it has finished with the entry is not lost: when the
\* processor finishes the entry, the path is still in the pending queue, to
\* be processed again.
C36_ChangeDuringAttemptKept ==
    [][LET p == Head(due_entries).file_path
       IN  (/\ pc = "commit" /\ pc' = "entry"
            /\ outcome = "ok" \/ h.raised
            /\ p \in h.owed)
           => p \in Queued(pending')]_vars

C38_OneCounterPerCall ==
    [][counters' # counters =>
         /\ Counted' = Counted + 1
         /\ \/ counters' = [counters EXCEPT !.created = @ + 1]
            \/ counters' = [counters EXCEPT !.updated = @ + 1]
            \/ counters' = [counters EXCEPT !.skipped = @ + 1]
            \/ counters' = [counters EXCEPT !.errors = @ + 1]]_vars

\* C39: a path is in the run's error list at most once, so that the errors
\* count is the number of distinct paths whose processing failed, retries
\* by later ticks included.
C39_ErrorPathOnce ==
    /\ Len(error_paths) = Cardinality(SeqToSet(error_paths))
    /\ counters.errors = Cardinality(SeqToSet(error_paths))

\* C40: in a tick, an entry that fails (file missing, resolver error,
\* unresolved, callback error) leaves the entries after it in the batch to
\* be attempted: run_once returns only when none is left; and the value it
\* returns counts the entries it resolved, at most the limit.
C40_BatchIsolation ==
    [][/\ (pc = "tick" /\ pc' = "entry") =>
             /\ processed' = 0
             /\ Len(due_entries') <= h'.tick.limit
       /\ (pc = "entry" /\ pc' # "entry") =>
             IF due_entries = <<>>
             THEN pc' = "check" /\ processed' = processed
             ELSE pc' = "commit" /\ due_entries' = due_entries
       /\ (pc = "commit" /\ pc' = "entry") =>
             /\ due_entries' = Tail(due_entries)
             /\ processed' = processed + (IF fails' = fails THEN 1 ELSE 0)
             /\ fails' = fails =>
                   /\ Head(due_entries).file_path \notin Queued(pending')
                   /\ dropped_count' = dropped_count
       /\ pc' \in {"entry", "commit"} =>
             processed' + Len(due_entries') <= h'.tick.limit]_vars

\* The second entry of a batch has been attempted, in the tick in which the
\* first one failed and was backed off.
C40_SecondAfterFailure ==
    /\ pc = "commit"
    /\ Len(h.tick.batch) = 2
    /\ Len(due_entries) = 1
    /\ due_entries[1] = h.tick.batch[2]
    /\ outcome = "ok"
    /\ LET q == h.tick.batch[1].file_path
       IN  /\ q \in Queued(pending)
           /\ Row(pending, q).attempt_count = h.tick.batch[1].attempt_count + 1
           /\ Row(pending, q).next_attempt_at > now

====
